---- MODULE Spec2Model ----
(***************************************************************************)
(* The Wormhole data-provider plugin:                                      *)
(*   - CircuitBreaker       (src/utils/circuit-breaker.ts)                 *)
(*   - RateLimiter          (src/utils/http.ts)                            *)
(*   - fetchWithRetry       (src/utils/http.ts)                            *)
(*   - DataProviderService  (src/service.ts) and the plugin's variables    *)
(*                          (src/index.ts)                                 *)
(*   - MetricsCollector     (src/utils/metrics.ts)                         *)
(* Each component has its own specifications (SpecCB, SpecRL, SpecRLU,     *)
(* SpecFR, SpecQuoteFetch, SpecSingleRate, SpecCache, SpecLiquidity,       *)
(* SpecSnapshot, SpecPing, SpecRateMath, SpecMetrics) over the shared      *)
(* variables; the variables of the other components stay at their initial  *)
(* values.  Time is a discrete clock `now` (one unit = 1 ms of             *)
(* Date.now()).                                                            *)
(***************************************************************************)
EXTENDS Integers, Sequences, FiniteSets, TLC

VARIABLES
    now,              \* Date.now()
    \* ---- CircuitBreaker fields (circuit-breaker.ts:16-20)
    state, failureCount, successCount, lastFailureTime, lastResetTime,
    \* ---- execute() calls in flight and the upstream's health (environment)
    call, healthy,
    \* ---- history of the breaker: failures in a row (no success, no reset of
    \* the counter between them) and HALF_OPEN successes in a row
    streak, okStreak,
    \* ---- RateLimiter fields (http.ts:14-17)
    queue, processing, requestCount, windowStart,
    \* ---- setTimeout timers of the limiter (due times, in scheduling order),
    \* acquire() calls made so far, and the log of admissions
    timers, acquired, admitted, lastRateLimitInfo,
    \* ---- fetchWithRetry: its arguments, locals and position
    retryConfig, attempt, lastError, pc, delay, result,
    \* ---- the outcome of the latest fetch() and the outcomes so far
    last, history,
    \* ---- DataProviderService: the response cache (service.ts cache field),
    \* the result of the latest getFromCache, and for each key the time and
    \* value of the latest setCache
    cache, got, lastSet, advances,
    \* ---- getLiquidityDepth: params.routes, the two slippage budgets, the
    \* behaviour of the quote endpoints for each route, the locals of the two
    \* findMaxAmountForSlippage calls in progress, the quotes given so far,
    \* and the `liquidity` array
    routes, budget, quoteSvc, search, quoted, liquidity,
    \* ---- getSnapshot: params.notionals and params.includeWindows, the
    \* behaviour of the volume endpoints, of DefiLlama and of the token
    \* endpoints, the results of getVolumes, getRates and getListedAssets,
    \* whether getRates was rejected, and the outcome of getSnapshot
    notionals, includeWindows, volumeSvc, llamaSvc, tokenSvc,
    volumes, rates, ratesRejected, listedAssets, snapshot,
    \* ---- ping: where the call is, the id of its acquire() call, its result
    \* and the outcomes of the health endpoints it tried
    pingPc, pingId, pingResult, pingProbes,
    \* ---- the plugin's variables (config.variables of initialize), and the
    \* latest application of one of the service's arithmetic functions
    config, applied,
    \* ---- MetricsCollector fields (metrics.ts:26-49)
    metrics, latencyHistory,
    \* ---- getSingleRate: position in the list of quote endpoints, 0 before
    \* the limiter admitted the call
    endpoint

cbVars == <<state, failureCount, successCount, lastFailureTime, lastResetTime,
            call, healthy, streak, okStreak>>
rlVars == <<queue, processing, requestCount, windowStart, timers, acquired,
            admitted, lastRateLimitInfo>>
frVars == <<retryConfig, attempt, lastError, pc, delay, result, last, history>>
cacheVars == <<cache, got, lastSet, advances>>
liqVars == <<routes, budget, quoteSvc, search, quoted, liquidity>>
snapVars == <<notionals, includeWindows, volumeSvc, llamaSvc, tokenSvc,
              volumes, rates, ratesRejected, listedAssets, snapshot>>
pingVars == <<pingPc, pingId, pingResult, pingProbes>>
plugVars == <<config, applied, metrics, latencyHistory, endpoint>>
svcVars == <<cacheVars, liqVars, snapVars, pingVars, plugVars>>
vars == <<now, cbVars, rlVars, frVars, svcVars>>

(***************************************************************************)
(* Bounds of the model.                                                    *)
(***************************************************************************)
StartTime == 4        \* Date.now() when the objects are constructed
MaxTimeCB == 6        \* the breaker is observed for this many ms
MaxCalls == 2         \* execute() calls that may be in flight at once

\* CircuitBreakerConfig, passed to the constructor (small values)
failureThreshold == 2
successThreshold == 2
timeout == 2
resetTimeout == 4

\* RateLimiter constructor arguments (small values) and its observation
maxRequests == 2
windowMs == 3
MaxTimeRL == 13       \* the limiter is observed for this many ms
MaxAcquires == 4      \* acquire() calls made in all

\* Math.max(10, ...) in process()
MinDelay == 10

\* fetchWithRetry: the largest retryConfig.maxRetries tried, the longest
\* Retry-After header value tried, and a small retryConfig.maxDelayMs
MaxRetries == 3
MaxHeaderLen == 2
SmallMaxDelayMs == 3000

\* The default retryConfig, and the defaults of the Retry-After parsing
DefaultMaxRetries == 3
DefaultBaseDelayMs == 1000
DefaultMaxDelayMs == 10000
MsPerSecond == 1000

Calls == 1..MaxCalls
InFlight == {"running", "probe"}

(***************************************************************************)
(* CircuitBreaker                                                          *)
(***************************************************************************)
InitCB ==
    /\ state = "CLOSED"
    /\ failureCount = 0
    /\ successCount = 0
    /\ lastFailureTime = 0
    /\ lastResetTime = now
    /\ call = [c \in Calls |-> "idle"]
    /\ healthy = FALSE
    /\ streak = 0
    /\ okStreak = 0

ResetDue_always == TRUE

ResetDue_ge == now - lastResetTime >= resetTimeout

\* execute(): "Reset failure count periodically"
ResetDue == now - lastResetTime > resetTimeout

OpenTimeoutElapsed_ge == now - lastFailureTime >= timeout

OpenTimeoutElapsed_swapped == lastFailureTime - now > timeout

\* execute(): the OPEN breaker lets a trial call through
OpenTimeoutElapsed == now - lastFailureTime > timeout

Trips_gt(fc) == fc > failureThreshold

\* onFailure(): the breaker trips
Trips(fc) == fc >= failureThreshold

Closes_gt(sc) == sc > successThreshold

\* onSuccess(): the HALF_OPEN breaker closes
Closes(sc) == sc >= successThreshold

\* execute(fn) up to `await fn()`: the periodic reset, the state check, and
\* either the rejection (throw) or the invocation of fn.
Execute(c) ==
    /\ call[c] \notin InFlight
    /\ failureCount' = IF ResetDue THEN 0 ELSE failureCount
    /\ lastResetTime' = IF ResetDue THEN now ELSE lastResetTime
    /\ streak' = IF ResetDue THEN 0 ELSE streak
    /\ IF state = "OPEN"
       THEN IF OpenTimeoutElapsed
            THEN /\ state' = "HALF_OPEN"
                 /\ successCount' = 0
                 /\ okStreak' = 0
                 /\ call' = [call EXCEPT ![c] = "probe"]
            ELSE /\ call' = [call EXCEPT ![c] = "rejected"]
                 /\ UNCHANGED <<state, successCount, okStreak>>
       ELSE /\ call' = [call EXCEPT ![c] = "running"]
            /\ UNCHANGED <<state, successCount, okStreak>>
    /\ UNCHANGED <<now, lastFailureTime, healthy, rlVars, frVars, svcVars>>

\* fn() resolves: onSuccess(), then the result is returned
Succeed(c) ==
    /\ call[c] \in InFlight
    /\ call' = [call EXCEPT ![c] = "succeeded"]
    /\ failureCount' = 0
    /\ IF state = "HALF_OPEN"
       THEN IF Closes(successCount + 1)
            THEN state' = "CLOSED" /\ successCount' = 0
            ELSE state' = state /\ successCount' = successCount + 1
       ELSE UNCHANGED <<state, successCount>>
    /\ streak' = 0
    /\ okStreak' = IF state = "HALF_OPEN" THEN okStreak + 1 ELSE okStreak
    /\ UNCHANGED <<now, lastFailureTime, lastResetTime, healthy, rlVars, frVars, svcVars>>

\* fn() rejects: onFailure(), then the error is re-thrown.  The wrapped
\* operation fails only while the upstream is unhealthy.
Fail(c) ==
    /\ call[c] \in InFlight
    /\ ~healthy
    /\ call' = [call EXCEPT ![c] = "failed"]
    /\ failureCount' = failureCount + 1
    /\ lastFailureTime' = now
    /\ state' = IF Trips(failureCount + 1) THEN "OPEN" ELSE state
    /\ streak' = streak + 1
    /\ okStreak' = 0
    /\ UNCHANGED <<now, successCount, lastResetTime, healthy, rlVars, frVars, svcVars>>

Reset_stateOnly ==
    /\ state' = "CLOSED"
    /\ UNCHANGED <<now, failureCount, successCount, lastFailureTime, streak,
                   okStreak, lastResetTime, call, healthy, rlVars, frVars,
                   svcVars>>

\* reset()
Reset ==
    /\ state' = "CLOSED"
    /\ failureCount' = 0
    /\ successCount' = 0
    /\ lastFailureTime' = 0
    /\ streak' = 0
    /\ okStreak' = 0
    /\ UNCHANGED <<now, lastResetTime, call, healthy, rlVars, frVars, svcVars>>

\* The upstream becomes healthy for good: from here on every wrapped
\* operation succeeds.  It happens early enough for openTimeout to elapse
\* within the modelled time.
Recover ==
    /\ ~healthy
    /\ now + timeout + 1 <= StartTime + MaxTimeCB
    /\ healthy' = TRUE
    /\ UNCHANGED <<now, state, failureCount, successCount, lastFailureTime,
                   lastResetTime, call, streak, okStreak, rlVars, frVars, svcVars>>

TickCB ==
    /\ now < StartTime + MaxTimeCB
    /\ now' = now + 1
    /\ UNCHANGED <<cbVars, rlVars, frVars, svcVars>>

(***************************************************************************)
(* RateLimiter                                                             *)
(***************************************************************************)
\* lastRateLimitInfo before the first updateRateLimitInfo
NoInfo == [undefined |-> TRUE]

InitRL ==
    /\ queue = <<>>
    /\ processing = FALSE
    /\ requestCount = 0
    /\ windowStart = now
    /\ timers = <<>>
    /\ acquired = 0
    /\ admitted = <<>>
    /\ lastRateLimitInfo = NoInfo

Max(a, b) == IF a >= b THEN a ELSE b

\* process(): "Reset window if expired"
WindowExpired == now - windowStart >= windowMs

UnderLimit_le(rc) == rc <= maxRequests

\* process(): "Process queue if under limit"
UnderLimit(rc) == rc < maxRequests

\* process(): delay of the next check
CheckDelay == Max(MinDelay, windowMs \div maxRequests)

\* process(): this.queue.shift()
Shifted_last(q) == q[Len(q)]
Shifted(q) == Head(q)

\* process(), run on queue q with the pending timers t
Process(q, t) ==
    IF processing /\ q = <<>>
    THEN /\ queue' = q
         /\ timers' = t
         /\ UNCHANGED <<processing, requestCount, windowStart, admitted>>
    ELSE LET rc1   == IF WindowExpired THEN 0 ELSE requestCount
             admit == UnderLimit(rc1) /\ q # <<>>
             q2    == IF admit THEN Tail(q) ELSE q
         IN  /\ windowStart' = IF WindowExpired THEN now ELSE windowStart
             /\ requestCount' = IF admit THEN rc1 + 1 ELSE rc1
             /\ admitted' = IF admit
                            THEN Append(admitted, [id |-> Shifted(q), at |-> now])
                            ELSE admitted
             /\ queue' = q2
             /\ processing' = (q2 # <<>>)
             /\ timers' = IF q2 # <<>> THEN Append(t, now + CheckDelay) ELSE t

\* acquire(): push the resolver, then process()
Acquire ==
    /\ acquired < MaxAcquires
    /\ acquired' = acquired + 1
    /\ Process(Append(queue, acquired + 1), timers)
    /\ UNCHANGED <<now, lastRateLimitInfo, cbVars, frVars, svcVars>>

RemoveAt(t, i) == [j \in 1..(Len(t) - 1) |-> IF j < i THEN t[j] ELSE t[j + 1]]

\* A timer set by process() fires, at its due time or later, timers due
\* earlier first: process()
TimerFire ==
    \E i \in 1..Len(timers) :
        /\ timers[i] <= now
        /\ \A j \in 1..Len(timers) :
              timers[j] > timers[i] \/ (timers[j] = timers[i] /\ j >= i)
        /\ Process(queue, RemoveAt(timers, i))
        /\ UNCHANGED <<now, acquired, lastRateLimitInfo, cbVars, frVars,
                       svcVars>>

TickRL ==
    /\ now < StartTime + MaxTimeRL
    /\ now' = now + 1
    /\ UNCHANGED <<cbVars, rlVars, frVars, svcVars>>

\* RateLimitInfo values passed to updateRateLimitInfo: the server reports
\* no request left, or all of them
RateLimitInfos ==
    {[limit |-> maxRequests, remaining |-> r, reset |-> 0] :
        r \in {0, maxRequests}}

\* updateRateLimitInfo: info.remaining < this.maxRequests / 2
ApproachingLimit(info) == 2 * info.remaining < maxRequests

\* updateRateLimitInfo: Date.now() - (this.windowMs / 2).  Date.now() is a
\* whole number of ms, so the window that starts at now - windowMs / 2
\* expires at the same instants as the one that starts at
\* now - floor(windowMs / 2).
SlowedWindowStart == now - (windowMs \div 2)

updateRateLimitInfo(info) ==
    /\ lastRateLimitInfo' = info
    /\ windowStart' = IF ApproachingLimit(info) THEN SlowedWindowStart
                      ELSE windowStart
    /\ UNCHANGED <<now, queue, processing, requestCount, timers, acquired,
                   admitted, cbVars, frVars, svcVars>>

\* One ms passes, with instants kept relative to the present: instead of
\* `now` moving forward, windowStart and the timers' due times move back.
\* The code only tests now - windowStart >= windowMs and whether a timer is
\* due, so a window start older than windowMs and a due time in the past
\* are kept at now - windowMs and at now.  (The `at` fields of `admitted`
\* carry no information under this clock.)
Elapse ==
    /\ windowStart' = Max(windowStart - 1, now - windowMs)
    /\ timers' = [j \in 1..Len(timers) |-> Max(timers[j] - 1, now)]
    /\ UNCHANGED <<now, queue, processing, requestCount, acquired, admitted,
                   lastRateLimitInfo, cbVars, frVars, svcVars>>

(***************************************************************************)
(* fetchWithRetry (called without a rateLimiter, as the service calls it)  *)
(*                                                                         *)
(* Text is a sequence of characters; the fixed parts of an error message   *)
(* ("Rate limited: retry after ", "Server error: ") are one element each:  *)
(* they hold no digit.  An absent text (null, undefined) and the empty     *)
(* text are both <<>>: the code tells them apart nowhere (x || "60").      *)
(* A JavaScript number is <<n>>, and NaN is <<>>.                          *)
(***************************************************************************)
None == <<>>
NaN == <<>>
Num(n) == <<n>>

Digits == {"0", "1", "2", "3", "4", "5", "6", "7", "8", "9"}

DigitValue(ch) ==
    CASE ch = "0" -> 0 [] ch = "1" -> 1 [] ch = "2" -> 2 [] ch = "3" -> 3
      [] ch = "4" -> 4 [] ch = "5" -> 5 [] ch = "6" -> 6 [] ch = "7" -> 7
      [] ch = "8" -> 8 [] ch = "9" -> 9

DigitChar(d) == <<"0", "1", "2", "3", "4", "5", "6", "7", "8", "9">>[d + 1]

\* The longest prefix of s that holds digits only
RECURSIVE LeadingDigits(_)
LeadingDigits(s) ==
    IF s = <<>> \/ Head(s) \notin Digits
    THEN <<>>
    ELSE <<Head(s)>> \o LeadingDigits(Tail(s))

\* The number a non-empty sequence of digits writes, in base 10
RECURSIVE DecimalValue(_)
DecimalValue(s) ==
    IF s = <<>> THEN 0
    ELSE 10 * DecimalValue(SubSeq(s, 1, Len(s) - 1)) + DigitValue(s[Len(s)])

RECURSIVE SkipSpaces(_)
SkipSpaces(s) ==
    IF s # <<>> /\ Head(s) = " " THEN SkipSpaces(Tail(s)) ELSE s

\* parseInt(s): leading white space, an optional sign, then the digits up to
\* the first other character; NaN when there is no digit
ParseInt(s) ==
    LET t    == SkipSpaces(s)
        neg  == t # <<>> /\ Head(t) = "-"
        u    == IF t # <<>> /\ Head(t) \in {"-", "+"} THEN Tail(t) ELSE t
        run  == LeadingDigits(u)
    IN  IF run = <<>> THEN NaN
        ELSE IF neg THEN Num(0 - DecimalValue(run)) ELSE Num(DecimalValue(run))

RECURSIVE NatToText(_)
NatToText(n) ==
    IF n < 10 THEN <<DigitChar(n)>>
    ELSE NatToText(n \div 10) \o <<DigitChar(n % 10)>>

\* `${n}` in a template string
NumberToText(x) ==
    IF x = NaN THEN <<"N", "a", "N">>
    ELSE IF x[1] < 0 THEN <<"-">> \o NatToText(0 - x[1])
    ELSE NatToText(x[1])

\* message.match(/\d+/)?.[0]: the first run of digits, None when none
RECURSIVE FirstDigitRun(_)
FirstDigitRun(s) ==
    IF s = <<>> THEN None
    ELSE IF Head(s) \in Digits THEN LeadingDigits(s)
    ELSE FirstDigitRun(Tail(s))

\* x || "60"
OrSixty(x) == IF x = None THEN <<"6", "0">> ELSE x

RateLimitedText == "Rate limited: retry after "
ServerErrorText == "Server error: "

\* The responses and transport failures fetch() may produce
Statuses == {200, 404, 429, 500}
HeaderChars == {"0", "5", "-", "G"}
HeaderTexts == UNION {[1..n -> HeaderChars] : n \in 0..MaxHeaderLen}
TransportErrors == {<<"fetch failed">>, <<"This operation was aborted">>}
Outcomes ==
    [kind : {"transport"}, message : TransportErrors]
    \cup [kind : {"response"}, status : Statuses \ {429}, retryAfter : {None}]
    \cup [kind : {"response"}, status : {429}, retryAfter : HeaderTexts]

\* What the history keeps of an outcome: the status, 0 for a transport
\* failure
Summary(o) == IF o.kind = "transport" THEN 0 ELSE o.status

\* response.status === 429
RateLimitedResponse(st) == st = 429

IsServerError_gt(st) == st > 500

\* !response.ok && response.status >= 500
IsServerError(st) == ~(st >= 200 /\ st <= 299) /\ st >= 500

\* What the try block throws on outcome o: a message, or None when it
\* returns the response
ThrownBy(o) ==
    IF o.kind = "transport" THEN o.message
    ELSE IF RateLimitedResponse(o.status)
    THEN <<RateLimitedText>> \o NumberToText(ParseInt(OrSixty(o.retryAfter)))
                             \o <<"s">>
    ELSE IF IsServerError(o.status)
    THEN <<ServerErrorText>> \o NumberToText(Num(o.status))
    ELSE None

\* error.message.includes("Rate limited")
IsRateLimit(msg) == \E i \in 1..Len(msg) : msg[i] = RateLimitedText

Min(a, b) == IF a <= b THEN a ELSE b

RECURSIVE Pow2(_)
Pow2(n) == IF n = 0 THEN 1 ELSE 2 * Pow2(n - 1)

Backoff_uncapped(a) == retryConfig.baseDelayMs * Pow2(a)

\* Math.min(baseDelayMs * 2^attempt, maxDelayMs)
Backoff(a) == Min(retryConfig.baseDelayMs * Pow2(a), retryConfig.maxDelayMs)

RateLimitDelay_seconds(msg) == ParseInt(OrSixty(FirstDigitRun(msg)))[1]

\* parseInt(error.message.match(/\d+/)?.[0] || "60") * 1000
RateLimitDelay(msg) == ParseInt(OrSixty(FirstDigitRun(msg)))[1] * MsPerSecond

\* The delay before the next attempt
RetryDelay(msg, a) == IF IsRateLimit(msg) THEN RateLimitDelay(msg) ELSE Backoff(a)

LoopContinues_lt(a) == a < retryConfig.maxRetries

\* for (...; attempt <= retryConfig.maxRetries; ...)
LoopContinues(a) == a <= retryConfig.maxRetries

\* catch: if (attempt < retryConfig.maxRetries)
WaitsBeforeRetry(a) == a < retryConfig.maxRetries

LastErrorAfter_first(msg) == IF lastError = None THEN msg ELSE lastError

\* catch: lastError = error
LastErrorAfter(msg) == msg

\* The default value of the retryConfig parameter
DefaultRetryConfig ==
    [maxRetries |-> DefaultMaxRetries, baseDelayMs |-> DefaultBaseDelayMs,
     maxDelayMs |-> DefaultMaxDelayMs]

\* The retryConfig arguments tried
RetryConfigs ==
    [maxRetries : 0..MaxRetries, baseDelayMs : {DefaultBaseDelayMs},
     maxDelayMs : {SmallMaxDelayMs, DefaultMaxDelayMs}]

InitFR ==
    /\ attempt = 0
    /\ lastError = None
    /\ pc = "fetch"
    /\ delay = 0
    /\ result = [kind |-> "none"]
    /\ last = [kind |-> "none"]
    /\ history = <<>>

\* attempt++ and the loop test: the next attempt, or the final throw
NextIteration(a, err) ==
    /\ attempt' = a
    /\ IF LoopContinues(a)
       THEN pc' = "fetch" /\ result' = result
       ELSE /\ pc' = "thrown"
            /\ result' = [kind |-> "error",
                          message |-> IF err = None THEN <<"Request failed">>
                                      ELSE err]

\* One attempt: fetch() settles with outcome o; the try block returns the
\* response or throws, and the catch block records the error and either
\* starts the wait or goes on to the loop test.
Attempt(o) ==
    /\ pc = "fetch"
    /\ last' = o
    /\ history' = Append(history, Summary(o))
    /\ IF ThrownBy(o) = None
       THEN /\ pc' = "returned"
            /\ result' = o
            /\ UNCHANGED <<attempt, lastError, delay>>
       ELSE /\ lastError' = LastErrorAfter(ThrownBy(o))
            /\ IF WaitsBeforeRetry(attempt)
               THEN /\ delay' = RetryDelay(ThrownBy(o), attempt)
                    /\ pc' = "sleep"
                    /\ UNCHANGED <<attempt, result>>
               ELSE /\ NextIteration(attempt + 1, lastError')
                    /\ UNCHANGED delay
    /\ UNCHANGED <<now, retryConfig, cbVars, rlVars, svcVars>>

\* The wait is over: attempt++ and the loop test
Wake ==
    /\ pc = "sleep"
    /\ NextIteration(attempt + 1, lastError)
    /\ UNCHANGED <<now, retryConfig, lastError, delay, last, history,
                   cbVars, rlVars, svcVars>>

(***************************************************************************)
(* DataProviderService: the response cache (getFromCache, setCache)        *)
(***************************************************************************)
CACHE_TTL == 60000      \* private readonly CACHE_TTL
MaxAdvances == 3        \* times the clock moves while the cache is observed

CacheKeys == {"listedAssets", "volumes"}
CacheData == {"d1", "d2"}
\* Date.now() moves between two cache operations by one of these amounts
ClockJumps == {1, CACHE_TTL - 1, CACHE_TTL}

Absent == [present |-> FALSE]
Entry(d, e) == [present |-> TRUE, data |-> d, expires |-> e]
Null == [hit |-> FALSE]
Hit(d) == [hit |-> TRUE, data |-> d]

InitCache ==
    /\ cache = [k \in CacheKeys |-> Absent]
    /\ got = [key |-> "", value |-> Null]
    /\ lastSet = [k \in CacheKeys |-> Absent]
    /\ advances = 0

\* cached.expires > Date.now()
Fresh_ge(e) == e.expires >= now
Fresh(e) == e.expires > now

setCache(key, data) ==
    /\ cache' = [cache EXCEPT ![key] = Entry(data, now + CACHE_TTL)]
    /\ lastSet' = [lastSet EXCEPT ![key] = [present |-> TRUE, data |-> data,
                                             at |-> now]]
    /\ UNCHANGED <<now, got, advances, cbVars, rlVars, frVars, liqVars,
                   snapVars, pingVars,
                   plugVars>>

getFromCache(key) ==
    /\ IF cache[key].present /\ Fresh(cache[key])
       THEN /\ got' = [key |-> key, value |-> Hit(cache[key].data)]
            /\ UNCHANGED cache
       ELSE /\ got' = [key |-> key, value |-> Null]
            /\ cache' = [cache EXCEPT ![key] = Absent]
    /\ UNCHANGED <<now, lastSet, advances, cbVars, rlVars, frVars, liqVars,
                   snapVars, pingVars,
                   plugVars>>

AdvanceClock ==
    /\ advances < MaxAdvances
    /\ \E d \in ClockJumps : now' = now + d
    /\ advances' = advances + 1
    /\ UNCHANGED <<cache, got, lastSet, cbVars, rlVars, frVars, liqVars,
                   snapVars, pingVars,
                   plugVars>>

(***************************************************************************)
(* DataProviderService: getLiquidityDepth, findMaxAmountForSlippage,       *)
(* getQuoteForAmount, calculateSlippage.  Amounts are scaled down: the     *)
(* search runs over 0..UpperBound (10^19 in the source) in MaxProbes       *)
(* iterations (25 in the source), and tokens have 0 or 1 decimals.         *)
(***************************************************************************)
UpperBound == 1000      \* `high` at the start of the search
MaxProbes == 3          \* iterations of the search loop
feeBps == 25            \* const feeBps = 25

Decimals == {0, 1}
RouteSet ==
    {[source |-> [decimals |-> ds], destination |-> [decimals |-> dd]] :
        ds \in Decimals, dd \in Decimals}

\* The budgets getLiquidityDepth passes, and the pairs of budgets tried
LiquidityBudgets == <<50, 100>>
SlippageBudgets == {0, 50, 100}
BudgetPairs == {p \in SlippageBudgets \X SlippageBudgets : p[1] < p[2]}

RECURSIVE Pow10(_)
Pow10(d) == IF d = 0 THEN 1 ELSE 10 * Pow10(d - 1)

Abs(x) == IF x < 0 THEN 0 - x ELSE x

\* BigInt division: the quotient is truncated towards zero
BigIntDiv_floor(a, b) == a \div b
BigIntDiv(a, b) == IF a >= 0 THEN a \div b ELSE 0 - ((0 - a) \div b)

\* (amountBN * BigInt(10000 - feeBps)) / BigInt(10000), computed on the
\* quotient and the remainder of amount by 10000 to stay within 32 bits
FeeAdjusted(amount) ==
    (amount \div 10000) * (10000 - feeBps)
      + ((amount % 10000) * (10000 - feeBps)) \div 10000

\* calculateSlippage: expectedOutBN
ExpectedOut(route, amountIn) ==
    (amountIn * Pow10(route.destination.decimals))
        \div Pow10(route.source.decimals)

calculateSlippage(route, amountIn, amountOut) ==
    LET expectedOut == ExpectedOut(route, amountIn)
    IN  IF expectedOut = 0 THEN 0
        ELSE Abs(BigIntDiv((expectedOut - amountOut) * 10000, expectedOut))

\* What getQuoteForAmount gives findMaxAmountForSlippage for one amount: a
\* quote, or a quote whose amountOut is no integer, on which
\* calculateSlippage throws
Thrown == [kind |-> "thrown"]
QuoteOf(out) == [kind |-> "quote", amountOut |-> out]

\* getQuoteForAmount when no endpoint gives an ok response
FallbackQuote(amount) == QuoteOf(FeeAdjusted(amount))

\* Answers of a live quote endpoint for an amount: the expected output, about
\* 75 bps less, twice as much, an unusable body
LiveQuotes(route, amount) ==
    LET e == ExpectedOut(route, amount)
    IN  {QuoteOf(e), QuoteOf((e * 9925) \div 10000), QuoteOf(2 * e), Thrown}

\* No quote endpoint gave an ok response (fetchWithRetry threw, or the
\* status was no success, on each of them)
Failed == [kind |-> "failed"]

\* Behaviours of the quote endpoints for a route: "down" - every endpoint
\* fails on every attempt; "exact" - they quote the expected output;
\* "garbled" - they answer with an amountOut that is no integer; "any" - any
\* answer or failure, the same each time for the same amount
QuoteServices == {"down", "exact", "garbled", "any"}

\* What the quote endpoints answer for an amount on route r
UpstreamQuote(r, amount) ==
    CASE quoteSvc[r] = "down" -> {Failed}
      [] quoteSvc[r] = "exact" -> {QuoteOf(ExpectedOut(routes[r], amount))}
      [] quoteSvc[r] = "garbled" -> {Thrown}
      [] quoteSvc[r] = "any" -> LiveQuotes(routes[r], amount) \cup {Failed}

getQuoteForAmount(r, amount) ==
    {IF a = Failed THEN FallbackQuote(amount) ELSE a :
        a \in UpstreamQuote(r, amount)}

Mid_sum(low, high) == low + high

\* const mid = (low + high) / BigInt(2)
Mid(low, high) == (low + high) \div 2

\* if (mid === low || mid === high) break
Breaks(low, high) == Mid(low, high) = low \/ Mid(low, high) = high

\* for (let i = 0; i < 25; i++)
LoopEnds_gt(i) == i > MaxProbes
LoopEnds(i) == i >= MaxProbes

\* if (actualSlippage <= slippageBps)
Feasible_ge(slippage, slippageBps) == slippage >= slippageBps
Feasible(slippage, slippageBps) == slippage <= slippageBps

\* findMaxAmountForSlippage before its first probe
InitSearch ==
    [low |-> 0, high |-> UpperBound, i |-> 0,
     done |-> LoopEnds(0) \/ Breaks(0, UpperBound)]

\* The route getLiquidityDepth is working on
CurrentRoute == Len(liquidity) + 1

\* One iteration of findMaxAmountForSlippage(route, budget[s]): the quote for
\* mid, then low or high moves; the loop is left after the last iteration
\* or when the next mid would be low or high
Probe(s) ==
    /\ CurrentRoute <= Len(routes)
    /\ ~search[s].done
    /\ LET r   == CurrentRoute
           mid == Mid(search[s].low, search[s].high)
       IN  \E o \in getQuoteForAmount(r, mid) :
             /\ \A e \in quoted :
                   (e.route = r /\ e.amount = mid) => e.outcome = o
             /\ quoted' = quoted \cup
                            {[route |-> r, amount |-> mid, outcome |-> o]}
             /\ LET ok == /\ o.kind = "quote"
                          /\ Feasible(calculateSlippage(routes[r], mid,
                                                        o.amountOut),
                                      budget[s])
                    low2  == IF ok THEN mid ELSE search[s].low
                    high2 == IF ok THEN search[s].high ELSE mid
                IN  search' = [search EXCEPT ![s] =
                                 [low |-> low2, high |-> high2,
                                  i |-> search[s].i + 1,
                                  done |-> \/ LoopEnds(search[s].i + 1)
                                           \/ Breaks(low2, high2)]]
    /\ UNCHANGED <<now, routes, budget, quoteSvc, liquidity, cbVars, rlVars,
                   frVars, cacheVars, snapVars, pingVars,
                   plugVars>>

\* getLiquidityDepth's catch: "5000000000000" and "10000000000000"
StaticThresholds ==
    << [maxAmountIn |-> <<"5">> \o [j \in 1..12 |-> "0"], slippageBps |-> 50],
       [maxAmountIn |-> <<"1">> \o [j \in 1..13 |-> "0"],
        slippageBps |-> 100] >>

\* findMaxAmountForSlippage catches the failure of every probe and nothing
\* else in it throws: its promise is never rejected
SearchRejected == FALSE

\* The entry getLiquidityDepth pushes for route r
LiquidityEntry(r, maxAmount50, maxAmount100) ==
    [route |-> r,
     thresholds |->
        IF SearchRejected THEN StaticThresholds
        ELSE << [maxAmountIn |-> NatToText(maxAmount50),
                 slippageBps |-> budget[1]],
                [maxAmountIn |-> NatToText(maxAmount100),
                 slippageBps |-> budget[2]] >>]

\* Both searches of the route have returned: the entry is pushed and the
\* next route starts
PushLiquidity ==
    /\ CurrentRoute <= Len(routes)
    /\ search[1].done /\ search[2].done
    /\ liquidity' = Append(liquidity,
                           LiquidityEntry(CurrentRoute, search[1].low,
                                          search[2].low))
    /\ search' = [s \in 1..2 |-> InitSearch]
    /\ UNCHANGED <<now, routes, budget, quoteSvc, quoted, cbVars, rlVars,
                   frVars, cacheVars, snapVars, pingVars,
                   plugVars>>

\* No getLiquidityDepth call
InitLiquidity ==
    /\ routes = <<>>
    /\ budget = LiquidityBudgets
    /\ quoteSvc = <<>>
    /\ search = [s \in 1..2 |-> InitSearch]
    /\ quoted = {}
    /\ liquidity = <<>>

\* getLiquidityDepth on one route, with any pair of budgets
InitLiquidityAny ==
    /\ routes \in {<<r>> : r \in RouteSet}
    /\ budget \in BudgetPairs
    /\ quoteSvc \in {<<q>> : q \in {"down", "any"}}
    /\ search = [s \in 1..2 |-> InitSearch]
    /\ quoted = {}
    /\ liquidity = <<>>

(***************************************************************************)
(* DataProviderService: getSnapshot, getVolumes, getRates,                 *)
(* getListedAssets and ping.  The four categories of getSnapshot run       *)
(* concurrently (Promise.all); each fetchWithRetry call is seen through    *)
(* its outcome, and rateLimiter.acquire() only delays a call.              *)
(***************************************************************************)
Windows == {"24h", "7d", "30d"}

\* A result that is not there yet, and one that is
Pending == [done |-> FALSE]
Done(v) == [done |-> TRUE, value |-> v]

\* An endpoint that gave an ok response with a JSON body
OkBody(b) == [kind |-> "ok", body |-> b]

\* a || b on numbers (undefined and 0 are both falsy)
OrElse(x, y) == IF x # 0 THEN x ELSE y

\* body.f for a numeric field (0 stands for an absent field too)
Field(body, f) == IF f \in DOMAIN body THEN body[f] ELSE 0

\* body[n1] || body[n2] || ... || 0
RECURSIVE FirstTruthy(_, _)
FirstTruthy(body, names) ==
    IF names = <<>> THEN 0
    ELSE OrElse(Field(body, Head(names)), FirstTruthy(body, Tail(names)))

getEstimatedVolume(window) ==
    CASE window = "24h" -> 15000000
      [] window = "7d" -> 105000000
      [] window = "30d" -> 450000000

\* Behaviours of the three volume endpoints: "down" - each fails on every
\* attempt; "live" - the first answers with all three windows; "partial" -
\* only the third answers, with the 24 h volume alone
VolumeServices == {"down", "live", "partial"}

VolumeEndpoints ==
    CASE volumeSvc = "down" -> <<Failed, Failed, Failed>>
      [] volumeSvc = "live" ->
            << OkBody(("24h" :> 20000000) @@ ("7d" :> 140000000)
                        @@ ("30d" :> 600000000)),
               Failed, Failed >>
      [] volumeSvc = "partial" ->
            <<Failed, Failed, OkBody("volume24h" :> 20000000)>>

\* Behaviours of api.llama.fi: "down" - it fails, or answers without
\* volumes; "live" - it reports a 24 h volume above the estimate and a 7 d
\* volume below it
LlamaServices == {"down", "live"}

getVolumeFromDefiLlama ==
    LET body == ("volume24h" :> 30000000) @@ ("volume7d" :> 50000000)
    IN  IF llamaSvc = "live"
        THEN ("24h" :> OrElse(Field(body, "volume24h"), 0))
               @@ ("7d" :> OrElse(Field(body, "volume7d"), 0))
               @@ ("30d" :> OrElse(Field(body, "volume30d"), 0))
        ELSE [w \in Windows |-> 0]

getVolumeFromBlockchainExplorers == [w \in Windows |-> getEstimatedVolume(w)]

\* One round of "if (data[window] && data[window] > volumes[window])"
TakeLarger(vols, data, ws) ==
    [w \in Windows |->
        IF (\E j \in 1..Len(ws) : ws[j] = w) /\ data[w] # 0
                                             /\ data[w] > vols[w]
        THEN data[w] ELSE vols[w]]

\* The array getVolumeFromPublicSources returns
getVolumeFromPublicSources(ws) ==
    LET v0 == [w \in Windows |-> 0]
        v1 == TakeLarger(v0, getVolumeFromDefiLlama, ws)
        v2 == TakeLarger(v1, getVolumeFromBlockchainExplorers, ws)
    IN  [j \in 1..Len(ws) |->
            [window |-> ws[j],
             volumeUsd |-> IF v2[ws[j]] = 0 THEN getEstimatedVolume(ws[j])
                           ELSE v2[ws[j]]]]

\* The record fetchVolumeData builds from an ok response
VolumeRecord(body) ==
    ("24h" :> FirstTruthy(body, <<"24h", "last24h", "daily", "volume24h">>))
      @@ ("7d" :> FirstTruthy(body, <<"7d", "last7d", "weekly", "volume7d">>))
      @@ ("30d" :> FirstTruthy(body, <<"30d", "last30d", "monthly",
                                       "volume30d">>))

\* fetchVolumeData: the record of the first endpoint that answers, or else
\* the ARRAY of getVolumeFromPublicSources
RECURSIVE fetchVolumeData(_, _)
fetchVolumeData(endpoints, ws) ==
    IF endpoints = <<>>
    THEN [kind |-> "array", items |-> getVolumeFromPublicSources(ws)]
    ELSE IF Head(endpoints).kind = "ok"
    THEN [kind |-> "record", fields |-> VolumeRecord(Head(endpoints).body)]
    ELSE fetchVolumeData(Tail(endpoints), ws)

\* volumeData[window] || 0: an array has no property named by a window
VolumeOf(volumeData, ws, j) ==
    IF volumeData.kind = "record" THEN volumeData.fields[ws[j]]
    ELSE 0

\* params.includeWindows || ["24h"]
NotGiven == [given |-> FALSE]
Given(ws) == [given |-> TRUE, windows |-> ws]
WindowsAsked == IF includeWindows.given THEN includeWindows.windows
                ELSE <<"24h">>

\* getFromCache and setCache, as the other methods use them
CacheHit(key) == cache[key].present /\ Fresh(cache[key])
CacheAfterGet(key) ==
    IF CacheHit(key) THEN cache ELSE [cache EXCEPT ![key] = Absent]
CacheAfterSet(c, key, data) ==
    [c EXCEPT ![key] = Entry(data, now + CACHE_TTL)]
LastSetAfter(key, data) ==
    [lastSet EXCEPT ![key] = [present |-> TRUE, data |-> data, at |-> now]]

\* getVolumes.  fetchVolumeData catches the failure of every endpoint and
\* getVolumeFromPublicSources does not throw, so the catch of getVolumes is
\* never entered.
GetVolumes ==
    /\ snapshot.status = "pending" \/ ratesRejected
    /\ ~volumes.done
    /\ IF CacheHit("volumes")
       THEN /\ volumes' = Done(cache["volumes"].data)
            /\ got' = [key |-> "volumes", value |-> Hit(cache["volumes"].data)]
            /\ UNCHANGED <<cache, lastSet>>
       ELSE LET ws == WindowsAsked
                volumeData == fetchVolumeData(VolumeEndpoints, ws)
                res == [j \in 1..Len(ws) |->
                             [window |-> ws[j],
                              volumeUsd |-> VolumeOf(volumeData, ws, j)]]
            IN  /\ volumes' = Done(res)
                /\ got' = [key |-> "volumes", value |-> Null]
                /\ cache' = CacheAfterSet(CacheAfterGet("volumes"),
                                          "volumes", res)
                /\ lastSet' = LastSetAfter("volumes", res)
    /\ UNCHANGED <<now, advances, notionals, includeWindows, volumeSvc,
                   llamaSvc, tokenSvc, rates, ratesRejected, listedAssets,
                   snapshot, cbVars, rlVars, frVars, liqVars, pingVars,
                   plugVars>>

\* A notional: the text of an integer, or a text BigInt() rejects
Notional(n) == [valid |-> TRUE, value |-> n]
InvalidNotional == [valid |-> FALSE]

\* A JS number kept as an exact fraction
Ratio(n, d) == [num |-> n, den |-> d]

\* (Number(amount) / 10^decimals) * 1 * (feeBps / 10000)
calculateFeeUsd(amount, asset) ==
    Ratio(amount * feeBps, Pow10(asset.decimals) * 10000)

calculateEffectiveRate_unscaled(amountIn, amountOut, decimalsIn, decimalsOut) ==
    IF amountIn = 0 THEN Ratio(0, 1) ELSE Ratio(amountOut, amountIn)

\* normalizedOut / normalizedIn, with Number(x) / Math.pow(10, decimals)
\* for each of them
calculateEffectiveRate(amountIn, amountOut, decimalsIn, decimalsOut) ==
    IF amountIn = 0 THEN Ratio(0, 1)
    ELSE Ratio(amountOut * Pow10(decimalsIn), amountIn * Pow10(decimalsOut))

\* The RateType value for route r
RateEntry(r, amountIn, amountOut, feeUsd) ==
    [source |-> routes[r].source,
     destination |-> routes[r].destination,
     amountIn |-> NatToText(amountIn),
     amountOut |-> NatToText(amountOut),
     effectiveRate |-> calculateEffectiveRate(amountIn, amountOut,
                           routes[r].source.decimals,
                           routes[r].destination.decimals),
     totalFeesUsd |-> feeUsd]

\* calculateWormholeQuote: amountOut
calculateWormholeQuote_fee(amount) == amount - FeeAdjusted(amount)
calculateWormholeQuote(amount) == FeeAdjusted(amount)

Threw == [kind |-> "threw"]
Returned(v) == [kind |-> "returned", value |-> v]

\* createFallbackRate: BigInt(notional) throws on a text that is no integer
createFallbackRate(r, notional) ==
    IF ~notional.valid THEN Threw
    ELSE Returned(RateEntry(r, notional.value,
                            calculateWormholeQuote(notional.value),
                            calculateFeeUsd(notional.value,
                                            routes[r].source)))

\* getSingleRate with the answer `a` of the quote endpoints
getSingleRate(r, notional, a) ==
    IF ~notional.valid \/ a = Thrown THEN Threw
    ELSE LET amountOut == IF a = Failed
                          THEN calculateWormholeQuote(notional.value)
                          ELSE a.amountOut
         IN  Returned(RateEntry(r, notional.value, amountOut,
                                calculateFeeUsd(notional.value,
                                                routes[r].source)))

\* getRates: try getSingleRate, catch createFallbackRate
RateOrFallback(tried, r, notional) ==
    IF tried = Threw THEN createFallbackRate(r, notional) ELSE tried

\* The (route, notional) pair getRates is working on: routes in the outer
\* loop, notionals in the inner one
PairRoute_inner(k) == ((k - 1) % Len(routes)) + 1
PairRoute(k) == ((k - 1) \div Len(notionals)) + 1
PairNotional(k) == ((k - 1) % Len(notionals)) + 1
RatesDone == ratesRejected \/ Len(rates) = Len(routes) * Len(notionals)

\* One iteration of getRates
GetSingleRate ==
    /\ snapshot.status = "pending" \/ ratesRejected
    /\ ~RatesDone
    /\ LET k == Len(rates) + 1
           r == PairRoute(k)
           notional == notionals[PairNotional(k)]
       IN  \E a \in UpstreamQuote(r, IF notional.valid THEN notional.value
                                     ELSE 0) :
             LET rate == RateOrFallback(getSingleRate(r, notional, a), r,
                                        notional)
             IN  IF rate = Threw
                 THEN ratesRejected' = TRUE /\ UNCHANGED rates
                 ELSE /\ rates' = Append(rates, rate.value)
                      /\ UNCHANGED ratesRejected
    /\ UNCHANGED <<now, notionals, includeWindows, volumeSvc, llamaSvc,
                   tokenSvc, volumes, listedAssets, snapshot, cbVars, rlVars,
                   frVars, cacheVars, liqVars, pingVars,
                   plugVars>>

\* getFallbackTokens (the first and the last of its eight tokens)
getFallbackTokens ==
    << [chainId |-> "1",
        assetId |-> "0xa0b86991c6218b36c1d19d4a2e9eb0ce3606eb48",
        symbol |-> "USDC", decimals |-> 6],
       [chainId |-> "137",
        assetId |-> "0xc2132d05d31c914a87c6611c10748aeb04b58e8f",
        symbol |-> "USDT", decimals |-> 6] >>

\* Behaviours of the three token endpoints: "down" - each fails; "empty" -
\* an ok response that lists no token; "live" - an ok response listing one
TokenServices == {"down", "empty", "live"}

ParsedTokens ==
    IF tokenSvc = "live"
    THEN << [chainId |-> "10",
             assetId |-> "0x7f5c764cbc14f9669b88837ca1490cca17c31607",
             symbol |-> "USDC", decimals |-> 6] >>
    ELSE <<>>

\* fetchWormholeAssets: the tokens parsed from the first ok response that
\* lists any, or else the fallback tokens
fetchWormholeAssets ==
    IF ParsedTokens # <<>> THEN ParsedTokens ELSE getFallbackTokens

\* getListedAssets.  fetchWormholeAssets does not throw, so the catch is
\* never entered.
GetListedAssets ==
    /\ snapshot.status = "pending" \/ ratesRejected
    /\ ~listedAssets.done
    /\ IF CacheHit("listedAssets")
       THEN /\ listedAssets' = Done(cache["listedAssets"].data)
            /\ got' = [key |-> "listedAssets",
                       value |-> Hit(cache["listedAssets"].data)]
            /\ UNCHANGED <<cache, lastSet>>
       ELSE LET assets == IF fetchWormholeAssets = <<>> THEN getFallbackTokens
                          ELSE fetchWormholeAssets
                res == [assets |-> assets]
            IN  /\ listedAssets' = Done(res)
                /\ got' = [key |-> "listedAssets", value |-> Null]
                /\ cache' = CacheAfterSet(CacheAfterGet("listedAssets"),
                                          "listedAssets", res)
                /\ lastSet' = LastSetAfter("listedAssets", res)
    /\ UNCHANGED <<now, advances, notionals, includeWindows, volumeSvc,
                   llamaSvc, tokenSvc, volumes, rates, ratesRejected,
                   snapshot, cbVars, rlVars, frVars, liqVars, pingVars,
                   plugVars>>

LiquidityDone == Len(liquidity) = Len(routes)

\* Promise.all settles: rejected as soon as getRates is, fulfilled once the
\* four results are there
ReturnSnapshot ==
    /\ snapshot.status = "pending"
    /\ IF ratesRejected
       THEN snapshot' = [status |-> "failure",
                         message |-> "Failed to fetch snapshot"]
       ELSE /\ volumes.done /\ RatesDone /\ LiquidityDone /\ listedAssets.done
            /\ snapshot' = [status |-> "success",
                            volumes |-> volumes.value,
                            rates |-> rates,
                            liquidity |-> liquidity,
                            listedAssets |-> listedAssets.value]
    /\ UNCHANGED <<now, notionals, includeWindows, volumeSvc, llamaSvc,
                   tokenSvc, volumes, rates, ratesRejected, listedAssets,
                   cbVars, rlVars, frVars, cacheVars, liqVars, pingVars,
                   plugVars>>

\* Outcomes of fetchWithRetry on a health endpoint: it throws, or returns a
\* response (of any status)
HealthOutcomes == {"threw", "ok", "unavailable"}

\* The endpoints ping tries: up to the first on which fetchWithRetry returns
RECURSIVE HealthProbes(_)
HealthProbes(outcomes) ==
    IF outcomes = <<>> THEN 0
    ELSE IF Head(outcomes) # "threw" THEN 1
    ELSE 1 + HealthProbes(Tail(outcomes))

\* A ping that reports what the health endpoints said
PingStatus_probed(outcomes) ==
    IF \E j \in 1..Len(outcomes) : outcomes[j] = "ok" THEN "ok" ELSE "error"

\* ping: status "ok" whatever happened
PingStatus(outcomes) == "ok"

\* ping is called: rateLimiter.acquire()
PingCall ==
    /\ pingPc = "idle"
    /\ acquired < MaxAcquires
    /\ acquired' = acquired + 1
    /\ Process(Append(queue, acquired + 1), timers)
    /\ pingPc' = "waiting"
    /\ pingId' = acquired + 1
    /\ pingResult' = [status |-> "none"]
    /\ pingProbes' = <<>>
    /\ UNCHANGED <<now, lastRateLimitInfo, cbVars, frVars, cacheVars, liqVars,
                   snapVars,
                   plugVars>>

\* The limiter has admitted the call: the health endpoints are tried and
\* ping returns
PingReturn ==
    /\ pingPc = "waiting"
    /\ \E j \in 1..Len(admitted) : admitted[j].id = pingId
    /\ \E outcomes \in [1..3 -> HealthOutcomes] :
          /\ pingProbes' = SubSeq(outcomes, 1, HealthProbes(outcomes))
          /\ pingResult' = [status |-> PingStatus(outcomes),
                            timestamp |-> now]
    /\ pingPc' = "idle"
    /\ UNCHANGED <<now, pingId, cbVars, rlVars, frVars, cacheVars, liqVars,
                   snapVars,
                   plugVars>>

\* No getSnapshot call
InitSnapshot ==
    /\ notionals = <<>>
    /\ includeWindows = NotGiven
    /\ volumeSvc = "down"
    /\ llamaSvc = "down"
    /\ tokenSvc = "down"
    /\ volumes = Pending
    /\ rates = <<>>
    /\ ratesRejected = FALSE
    /\ listedAssets = Pending
    /\ snapshot = [status |-> "none"]

InitPing ==
    /\ pingPc = "idle"
    /\ pingId = 0
    /\ pingResult = [status |-> "none"]
    /\ pingProbes = <<>>

Route(ds, dd) ==
    [source |-> [decimals |-> ds], destination |-> [decimals |-> dd]]

\* The arguments of the getSnapshot calls tried
SnapshotParams ==
    { [routes |-> <<Route(0, 0), Route(1, 0)>>,
       notionals |-> <<Notional(1000000), Notional(7)>>,
       includeWindows |-> Given(<<"24h", "7d", "30d">>)],
      [routes |-> <<Route(0, 1)>>,
       notionals |-> <<Notional(0)>>,
       includeWindows |-> NotGiven],
      [routes |-> <<Route(0, 0)>>,
       notionals |-> <<Notional(5), InvalidNotional>>,
       includeWindows |-> Given(<<"30d">>)] }

\* A getSnapshot call starts, on a new service, with any behaviour of the
\* upstream services
InitSnapshotAny ==
    /\ \E p \in SnapshotParams :
          /\ routes = p.routes
          /\ notionals = p.notionals
          /\ includeWindows = p.includeWindows
    /\ budget = LiquidityBudgets
    /\ quoteSvc \in [1..Len(routes) -> {"down", "exact", "garbled"}]
    /\ search = [s \in 1..2 |-> InitSearch]
    /\ quoted = {}
    /\ liquidity = <<>>
    /\ volumeSvc \in VolumeServices
    \* DefiLlama is only asked when the volume endpoints are down
    /\ llamaSvc \in IF volumeSvc = "down" THEN LlamaServices ELSE {"down"}
    /\ tokenSvc \in TokenServices
    /\ volumes = Pending
    /\ rates = <<>>
    /\ ratesRejected = FALSE
    /\ listedAssets = Pending
    /\ snapshot = [status |-> "pending"]

(***************************************************************************)
(* The plugin's variables (index.ts), the service's calls of               *)
(* fetchWithRetry for a quote, and the service's arithmetic functions      *)
(* applied on their own.                                                   *)
(***************************************************************************)
\* variables: timeout (1000..60000, default 10000) and retryMaxAttempts
\* (1..10, default 3)
DefaultPluginConfig == [timeout |-> 10000, retryMaxAttempts |-> 3]
PluginConfigs ==
    [timeout : {1000, 10000, 60000}, retryMaxAttempts : {1, 3, 10}]

\* initialize: the retryConfig given to the DataProviderService constructor
ServiceRetryConfig ==
    [maxRetries |-> config.retryMaxAttempts,
     baseDelayMs |-> DefaultBaseDelayMs, maxDelayMs |-> DefaultMaxDelayMs]

\* getSingleRate, getQuoteForAmount: { ...this.retryConfig, maxRetries: 1 }
QuoteRetryConfig == [ServiceRetryConfig EXCEPT !.maxRetries = 1]

\* fetchWithRetry: setTimeout(() => controller.abort(), 30000)
FetchAbortMs == 30000

\* The times a transport call may need to settle
Durations == {100, 20000, 40000}

\* The signal fetch() is given, as the time after which it aborts:
\* { ...options, signal: controller.signal } replaces the signal of the
\* options, AbortSignal.timeout(this.timeout), by the controller's
AbortAfter(optionsTimeout) == FetchAbortMs

\* fetch() on a transport call that needs d ms to settle with outcome o:
\* what it settles with, and the time it was in flight
Fetch(o, d) ==
    IF d >= AbortAfter(config.timeout)
    THEN [kind |-> "transport", message |-> <<"This operation was aborted">>,
          needed |-> d, took |-> AbortAfter(config.timeout)]
    ELSE IF o.kind = "transport"
    THEN [kind |-> "transport", message |-> o.message, needed |-> d,
          took |-> d]
    ELSE [kind |-> "response", status |-> o.status,
          retryAfter |-> o.retryAfter, needed |-> d, took |-> d]

\* No arithmetic function applied yet
NotApplied == [fn |-> "none"]

\* MetricsCollector: the sample keeps this many latencies (1000 in the
\* source), and this many calls and this many cache lookups are recorded
\* between two resets
HistoryLimit == 3
MaxRecorded == 4
MaxLookups == 2

Latencies == {0, 2, 7}
ErrorTypes == {"timeout", "rateLimited", "undefined"}

\* latency.min is Infinity until a call is recorded
Infinity == [finite |-> FALSE]
Finite(n) == [finite |-> TRUE, value |-> n]

\* The value of `metrics` in the field initialiser and in reset()
InitialMetrics ==
    [apiCalls |-> [total |-> 0, success |-> 0, failures |-> 0,
                   timeouts |-> 0, rateLimited |-> 0],
     latency |-> [min |-> Infinity, max |-> 0, avg |-> Ratio(0, 1),
                  p95 |-> 0, p99 |-> 0],
     cache |-> [hits |-> 0, misses |-> 0, hitRate |-> Ratio(0, 1)],
     lastUpdated |-> now]

InitMetrics ==
    /\ metrics = InitialMetrics
    /\ latencyHistory = <<>>

KeepRecent_oldest(h) ==
    IF Len(h) > HistoryLimit THEN SubSeq(h, 1, HistoryLimit) ELSE h

\* if (this.latencyHistory.length > 1000) this.latencyHistory.shift()
KeepRecent(h) == IF Len(h) > HistoryLimit THEN Tail(h) ELSE h

\* [...this.latencyHistory].sort((a, b) => a - b)
Sorted(h) == SortSeq(h, LAMBDA a, b : a < b)

RECURSIVE Sum(_)
Sum(h) == IF h = <<>> THEN 0 ELSE Head(h) + Sum(Tail(h))

\* sorted[Math.floor(sorted.length * p)] || 0, p given in hundredths
Percentile(sorted, p) == OrElse(sorted[((Len(sorted) * p) \div 100) + 1], 0)

updateLatencyMetrics(h, latency) ==
    IF h = <<>> THEN latency
    ELSE LET sorted == Sorted(h)
         IN  [min |-> Finite(sorted[1]),
              max |-> sorted[Len(sorted)],
              avg |-> Ratio(Sum(sorted), Len(sorted)),
              p95 |-> Percentile(sorted, 95),
              p99 |-> Percentile(sorted, 99)]

recordApiCall(success, latency, errorType) ==
    /\ metrics.apiCalls.total < MaxRecorded
    /\ LET calls == metrics.apiCalls
           h     == KeepRecent(Append(latencyHistory, latency))
       IN  /\ latencyHistory' = h
           /\ metrics' =
                 [apiCalls |->
                    [total |-> calls.total + 1,
                     success |-> IF success THEN calls.success + 1
                                 ELSE calls.success,
                     failures |-> IF success THEN calls.failures
                                  ELSE calls.failures + 1,
                     timeouts |-> IF ~success /\ errorType = "timeout"
                                  THEN calls.timeouts + 1
                                  ELSE calls.timeouts,
                     rateLimited |-> IF ~success /\ errorType = "rateLimited"
                                     THEN calls.rateLimited + 1
                                     ELSE calls.rateLimited],
                  latency |-> updateLatencyMetrics(h, metrics.latency),
                  cache |-> metrics.cache,
                  lastUpdated |-> now]
    /\ UNCHANGED <<now, config, applied, endpoint, cbVars, rlVars, frVars,
                   cacheVars, liqVars, snapVars, pingVars>>

recordCacheHit(hit) ==
    /\ metrics.cache.hits + metrics.cache.misses < MaxLookups
    /\ LET hits   == IF hit THEN metrics.cache.hits + 1
                     ELSE metrics.cache.hits
           misses == IF hit THEN metrics.cache.misses
                     ELSE metrics.cache.misses + 1
       IN  metrics' = [metrics EXCEPT !.cache =
                          [hits |-> hits, misses |-> misses,
                           hitRate |-> IF hits + misses > 0
                                       THEN Ratio(hits, hits + misses)
                                       ELSE Ratio(0, 1)]]
    /\ UNCHANGED <<now, config, applied, latencyHistory, endpoint, cbVars,
                   rlVars, frVars, cacheVars, liqVars, snapVars, pingVars>>

\* MetricsCollector.reset()
ResetMetrics ==
    /\ metrics' = InitialMetrics
    /\ latencyHistory' = <<>>
    /\ UNCHANGED <<now, config, applied, endpoint, cbVars, rlVars, frVars,
                   cacheVars, liqVars, snapVars, pingVars>>

InitPlugin ==
    /\ config = DefaultPluginConfig
    /\ applied = NotApplied
    /\ InitMetrics
    /\ endpoint = 0

\* Token decimals and amounts calculateEffectiveRate is applied to (18 and
\* 6 decimals in the source's tokens are scaled down)
MaxDecimals == 3
RateAmounts ==
    {0, 1, 2, 3, 7} \cup {k * Pow10(d) : k \in 1..2, d \in 0..MaxDecimals}

\* calculateEffectiveRate is applied to some arguments
ApplyEffectiveRate ==
    /\ applied = NotApplied
    /\ \E amountIn \in RateAmounts, amountOut \in RateAmounts,
          decimalsIn \in 0..MaxDecimals, decimalsOut \in 0..MaxDecimals :
          applied' = [fn |-> "calculateEffectiveRate",
                      amountIn |-> amountIn, amountOut |-> amountOut,
                      decimalsIn |-> decimalsIn, decimalsOut |-> decimalsOut,
                      value |-> calculateEffectiveRate(amountIn, amountOut,
                                                       decimalsIn,
                                                       decimalsOut)]
    /\ UNCHANGED <<now, config, metrics, latencyHistory, endpoint, cbVars,
                   rlVars, frVars, cacheVars, liqVars, snapVars, pingVars>>

\* Amounts calculateSlippage is applied to
SlippageAmountsIn == 0..12
SlippageAmountsOut == {0, 1, 7, 9, 10, 12, 99, 100, 101, 997, 1000, 1003}

\* calculateSlippage is applied to some arguments
ApplySlippage ==
    /\ applied = NotApplied
    /\ \E amountIn \in SlippageAmountsIn, amountOut \in SlippageAmountsOut,
          decimalsIn \in 0..MaxDecimals, decimalsOut \in 0..MaxDecimals :
          applied' = [fn |-> "calculateSlippage",
                      amountIn |-> amountIn, amountOut |-> amountOut,
                      decimalsIn |-> decimalsIn, decimalsOut |-> decimalsOut,
                      value |-> calculateSlippage(Route(decimalsIn,
                                                        decimalsOut),
                                                  amountIn, amountOut)]
    /\ UNCHANGED <<now, config, metrics, latencyHistory, endpoint, cbVars,
                   rlVars, frVars, cacheVars, liqVars, snapVars, pingVars>>

\* getSingleRate: the endpoints array
QuoteEndpoints == 3

\* getSingleRate: if (this.rateLimiter) await this.rateLimiter.acquire(),
\* once per call, before the loop over the endpoints
getSingleRate_acquire ==
    /\ endpoint = 0
    /\ acquired' = acquired + 1
    /\ Process(Append(queue, acquired + 1), timers)
    /\ endpoint' = IF Len(admitted') > Len(admitted) THEN 1 ELSE 0
    /\ UNCHANGED <<now, lastRateLimitInfo, config, applied, metrics,
                   latencyHistory, cbVars, frVars, cacheVars, liqVars,
                   snapVars, pingVars>>

\* getSingleRate: one attempt of the fetchWithRetry call made for the
\* current endpoint
getSingleRate_attempt(o, d) ==
    /\ endpoint >= 1
    /\ Attempt(Fetch(o, d))

\* getSingleRate: catch { continue }, fetchWithRetry is called anew for the
\* next endpoint
getSingleRate_continue ==
    /\ endpoint >= 1
    /\ endpoint < QuoteEndpoints
    /\ pc = "thrown"
    /\ endpoint' = endpoint + 1
    /\ attempt' = 0
    /\ lastError' = None
    /\ pc' = "fetch"
    /\ UNCHANGED <<now, retryConfig, delay, result, last, history, config,
                   applied, metrics, latencyHistory, cbVars, rlVars,
                   cacheVars, liqVars, snapVars, pingVars>>

InitUtils ==
    /\ now = StartTime
    /\ InitCB
    /\ InitRL
    /\ InitFR
    /\ retryConfig = DefaultRetryConfig

InitSvc ==
    /\ InitCache
    /\ InitLiquidity
    /\ InitSnapshot
    /\ InitPing
    /\ InitPlugin

Init ==
    /\ now = StartTime
    /\ InitCB
    /\ InitRL
    /\ InitFR
    /\ retryConfig = DefaultRetryConfig
    /\ InitSvc

\* fetchWithRetry called with any of the retryConfig arguments
InitAnyConfig ==
    /\ now = StartTime
    /\ InitCB
    /\ InitRL
    /\ InitFR
    /\ retryConfig \in RetryConfigs
    /\ InitSvc

NextCB ==
    \/ \E c \in Calls : Execute(c)
    \/ \E c \in Calls : Succeed(c)
    \/ \E c \in Calls : Fail(c)
    \/ Reset
    \/ Recover
    \/ TickCB

SpecCB == Init /\ [][NextCB]_vars

NextRL ==
    \/ Acquire
    \/ TimerFire
    \/ TickRL

SpecRL == Init /\ [][NextRL]_vars

\* The limiter with updateRateLimitInfo calls, observed for unbounded time
NextRLU ==
    \/ Acquire
    \/ TimerFire
    \/ \E info \in RateLimitInfos : updateRateLimitInfo(info)
    \/ Elapse

SpecRLU == Init /\ [][NextRLU]_vars

\* "time advances and scheduled timers fire"
SpecRLULive ==
    /\ SpecRLU
    /\ WF_vars(Elapse)
    /\ WF_vars(TimerFire)

NextFR ==
    \/ \E o \in Outcomes : Attempt(o)
    \/ Wake

SpecFR == InitAnyConfig /\ [][NextFR]_vars

NextCache ==
    \/ \E k \in CacheKeys, d \in CacheData : setCache(k, d)
    \/ \E k \in CacheKeys : getFromCache(k)
    \/ AdvanceClock

SpecCache == Init /\ [][NextCache]_vars

NextLiquidity ==
    \/ \E s \in 1..2 : Probe(s)
    \/ PushLiquidity

\* A getLiquidityDepth call starts on a new service
InitLiquidityCall ==
    /\ InitUtils
    /\ InitCache
    /\ InitLiquidityAny
    /\ InitSnapshot
    /\ InitPing
    /\ InitPlugin

SpecLiquidity == InitLiquidityCall /\ [][NextLiquidity]_vars

NextSnapshot ==
    \/ GetVolumes
    \/ GetSingleRate
    \/ \E s \in 1..2 : Probe(s)
    \/ PushLiquidity
    \/ GetListedAssets
    \/ ReturnSnapshot

\* A getSnapshot call starts on a new service
InitSnapshotCall ==
    /\ InitUtils
    /\ InitCache
    /\ InitSnapshotAny
    /\ InitPing
    /\ InitPlugin

SpecSnapshot == InitSnapshotCall /\ [][NextSnapshot]_vars

\* ping calls on a service whose limiter is shared with other callers
NextPing ==
    \/ PingCall
    \/ PingReturn
    \/ Acquire
    \/ TimerFire
    \/ Elapse

SpecPing == Init /\ [][NextPing]_vars

\* time advances, timers fire, and an admitted ping runs to its end
SpecPingLive ==
    /\ SpecPing
    /\ WF_vars(Elapse)
    /\ WF_vars(TimerFire)
    /\ WF_vars(PingReturn)

\* A fetchWithRetry call that getSingleRate or getQuoteForAmount makes for
\* one quote endpoint, on a service of a plugin with any variables
InitQuoteFetch ==
    /\ now = StartTime
    /\ InitCB
    /\ InitRL
    /\ InitFR
    /\ config \in PluginConfigs
    /\ retryConfig = QuoteRetryConfig
    /\ InitCache
    /\ InitLiquidity
    /\ InitSnapshot
    /\ InitPing
    /\ applied = NotApplied
    /\ InitMetrics
    /\ endpoint = 0

NextQuoteFetch ==
    \/ \E o \in Outcomes, d \in Durations : Attempt(Fetch(o, d))
    \/ Wake

SpecQuoteFetch == InitQuoteFetch /\ [][NextQuoteFetch]_vars

\* One getSingleRate call on a service with the default plugin variables
\* and a fresh limiter
InitSingleRate ==
    /\ now = StartTime
    /\ InitCB
    /\ InitRL
    /\ InitFR
    /\ InitPlugin
    /\ retryConfig = QuoteRetryConfig
    /\ InitCache
    /\ InitLiquidity
    /\ InitSnapshot
    /\ InitPing

\* What the quote endpoints answer: any transport error or status, a 429
\* without Retry-After or with a one-digit one, within the abort time
QuoteOutcomes ==
    {o \in Outcomes :
        (o.kind = "response" /\ o.status = 429) =>
            o.retryAfter \in {<<>>, <<"5">>}}
QuoteDurations == {d \in Durations : 2 * d < FetchAbortMs}

NextSingleRate ==
    \/ getSingleRate_acquire
    \/ \E o \in QuoteOutcomes, d \in QuoteDurations :
          getSingleRate_attempt(o, d)
    \/ Wake
    \/ getSingleRate_continue

SpecSingleRate == InitSingleRate /\ [][NextSingleRate]_vars

NextRateMath ==
    \/ ApplyEffectiveRate
    \/ ApplySlippage

SpecRateMath == Init /\ [][NextRateMath]_vars

NextMetrics ==
    \/ \E success \in BOOLEAN, latency \in Latencies, errorType \in ErrorTypes :
          recordApiCall(success, latency, errorType)
    \/ \E hit \in BOOLEAN : recordCacheHit(hit)
    \/ ResetMetrics

SpecMetrics == Init /\ [][NextMetrics]_vars

\* "execute keeps being called as time advances": the clock ticks, execute
\* is called whenever a caller is free, and every wrapped operation
\* completes.
SpecCBLive ==
    /\ SpecCB
    /\ WF_vars(TickCB)
    /\ WF_vars(\E c \in Calls : Execute(c))
    /\ WF_vars(\E c \in Calls : Succeed(c))

(***************************************************************************)
(* Claims about the CircuitBreaker                                         *)
(***************************************************************************)
\* The wrapped operation of call c is invoked in this step
Invoked(c) == call[c] \notin InFlight /\ call'[c] \in InFlight

\* C2: once failureThreshold calls have failed in a row (no success and no
\* reset of the failure counter between them) the state is OPEN, and while
\* openTimeout has not elapsed since the last failure the breaker stays OPEN
\* under execute calls, each of which is rejected without invoking the
\* wrapped operation.
C2_OpenAfterThresholdFailures ==
    [][ /\ \A c \in Calls :
              (Fail(c) /\ streak' >= failureThreshold) => state' = "OPEN"
        /\ (state = "OPEN" /\ now - lastFailureTime < timeout) =>
              /\ \A c \in Calls : ~Invoked(c)
              /\ \A c \in Calls : Execute(c) =>
                    (call'[c] = "rejected" /\ state' = "OPEN")
              /\ (state' = "OPEN" \/ Reset) ]_vars

C2_Witness ==
    /\ state = "OPEN"
    /\ streak >= failureThreshold
    /\ now - lastFailureTime < timeout
    /\ \E c \in Calls : call[c] = "rejected"

\* C3: a wrapped operation that fails while the state is HALF_OPEN leaves the
\* breaker OPEN, whatever the counters were.
C3_HalfOpenFailureReopens ==
    [][ \A c \in Calls : (state = "HALF_OPEN" /\ Fail(c)) => state' = "OPEN" ]_vars

\* C4: while the HALF_OPEN trial probe is in flight, no other execute call
\* has its wrapped operation invoked.
C4_SingleProbe ==
    [][ (\E p \in Calls : call[p] = "probe") =>
            \A c \in Calls : ~Invoked(c) ]_vars

\* C5: in HALF_OPEN each success increments the success counter, and when
\* successThreshold successes have occurred (in a row) the state becomes
\* CLOSED with the success counter and the failure counter both 0.
C5_HalfOpenSuccessCloses ==
    [][ \A c \in Calls : (state = "HALF_OPEN" /\ Succeed(c)) =>
            /\ failureCount' = 0
            /\ IF successCount + 1 >= successThreshold
               THEN state' = "CLOSED" /\ successCount' = 0
               ELSE state' = "HALF_OPEN" /\ successCount' = successCount + 1
            /\ okStreak' >= successThreshold =>
                  (state' = "CLOSED" /\ successCount' = 0) ]_vars

C5_Witness ==
    /\ state = "CLOSED"
    /\ okStreak >= successThreshold
    /\ successCount = 0
    /\ failureCount = 0
    /\ \E c \in Calls : call[c] = "succeeded"

\* C6 (as claimed): on an OPEN breaker an execute call at time t is rejected
\* if t - lastFailureTime < openTimeout and admitted, with the state
\* HALF_OPEN before the operation starts, if t - lastFailureTime >= openTimeout.
C6_AdmittedAtEquality ==
    [][ \A c \in Calls : (state = "OPEN" /\ Execute(c)) =>
            IF now - lastFailureTime < timeout
            THEN call'[c] = "rejected" /\ state' = "OPEN"
            ELSE call'[c] = "probe" /\ state' = "HALF_OPEN" ]_vars

\* C6 (amended): on an OPEN breaker an execute call at time t is rejected if
\* t - lastFailureTime <= openTimeout (exact equality included) and admitted,
\* with the state HALF_OPEN before the operation starts, if
\* t - lastFailureTime > openTimeout.
C6_AdmittedAfterTimeout ==
    [][ \A c \in Calls : (state = "OPEN" /\ Execute(c)) =>
            IF now - lastFailureTime <= timeout
            THEN call'[c] = "rejected" /\ state' = "OPEN"
            ELSE call'[c] = "probe" /\ state' = "HALF_OPEN" ]_vars

C6_Witness ==
    /\ state = "HALF_OPEN"
    /\ now - lastFailureTime = timeout + 1
    /\ \E c, d \in Calls : call[c] = "probe" /\ call[d] = "rejected"

\* C7: once the upstream is healthy (every wrapped operation succeeds) and
\* execute keeps being called as time advances, the breaker eventually is
\* CLOSED and stays CLOSED.
C7_Recovers == [](healthy => <>[](state = "CLOSED"))

C7_Witness ==
    /\ healthy
    /\ state = "CLOSED"
    /\ lastFailureTime > 0
    /\ now - lastFailureTime > timeout
    /\ okStreak >= successThreshold

(***************************************************************************)
(* Claims about the RateLimiter                                            *)
(***************************************************************************)
\* Admissions whose time lies in the interval [t, t + windowMs)
AdmissionsFrom(t) ==
    {i \in 1..Len(admitted) : admitted[i].at >= t /\ admitted[i].at < t + windowMs}

\* C1: the number of admissions inside any sliding interval of length
\* windowMs never exceeds maxRequests (it suffices to look at the intervals
\* that start at an admission).
C1_SlidingWindowLimit ==
    \A i \in 1..Len(admitted) :
        Cardinality(AdmissionsFrom(admitted[i].at)) <= maxRequests

(***************************************************************************)
(* Claims about fetchWithRetry                                             *)
(***************************************************************************)
\* An attempt fails: a transport failure, a 429, or a status of 500 and up
FailedAttempt(h) == h = 0 \/ h = 429 \/ h >= 500

\* The error a failed attempt raises
ErrorOf(o) ==
    IF o.kind = "transport" THEN o.message
    ELSE IF o.status = 429
    THEN <<RateLimitedText>> \o NumberToText(ParseInt(OrSixty(o.retryAfter)))
                             \o <<"s">>
    ELSE <<ServerErrorText>> \o NumberToText(Num(o.status))

AttemptsMade == Len(history)

\* C8: the attempts are made one after another; the first attempt that does
\* not fail ends the call and its response is returned; if every attempt
\* fails, exactly maxRetries + 1 attempts are made and the error of the last
\* one is raised.  500, 500, success with maxRetries = 3: 3 attempts and the
\* success; 500 throughout with maxRetries = 1: the server error after 2.
C8_AttemptsAndResult ==
    /\ \A i \in 1..(AttemptsMade - 1) : FailedAttempt(history[i])
    /\ AttemptsMade <= retryConfig.maxRetries + 1
    /\ pc \in {"fetch", "sleep"} =>
          /\ \A i \in 1..AttemptsMade : FailedAttempt(history[i])
          /\ AttemptsMade = IF pc = "fetch" THEN attempt ELSE attempt + 1
          /\ AttemptsMade < retryConfig.maxRetries + 1
    /\ pc = "returned" =>
          /\ ~FailedAttempt(history[AttemptsMade])
          /\ result = last
    /\ pc = "thrown" =>
          /\ AttemptsMade = retryConfig.maxRetries + 1
          /\ FailedAttempt(history[AttemptsMade])
          /\ result = [kind |-> "error", message |-> ErrorOf(last)]
    /\ (retryConfig.maxRetries = 3 /\ history = <<500, 500, 200>>) =>
          (pc = "returned" /\ result.status = 200)
    /\ (retryConfig.maxRetries = 1 /\ history = <<500, 500>>) =>
          (pc = "thrown" /\ result.message = <<ServerErrorText, "5", "0", "0">>)
    /\ (AttemptsMade > 0 /\ ~FailedAttempt(history[AttemptsMade])) =>
          pc = "returned"

C8_Witness ==
    /\ retryConfig.maxRetries = 3
    /\ history = <<500, 500, 200>>
    /\ pc = "returned"

\* C9 (as claimed): a response with a non-success status, 4xx other than 429
\* included, is never returned to the caller while attempts remain.
C9_NonSuccessNeverReturnedEarly ==
    (pc = "returned" /\ AttemptsMade < retryConfig.maxRetries + 1) =>
        (result.status >= 200 /\ result.status <= 299)

\* C9 (amended): an attempt that ends in a transport failure, a 429 response
\* or a response with a status of 500 and up is followed by another attempt
\* as long as fewer than maxRetries + 1 attempts have been made, and such a
\* response is never returned; a response with any other status (4xx other
\* than 429 included) is returned to the caller at once.
C9_RetriesFailuresReturnsTheRest ==
    AttemptsMade > 0 =>
        IF FailedAttempt(history[AttemptsMade])
        THEN /\ pc # "returned"
             /\ AttemptsMade < retryConfig.maxRetries + 1 =>
                   \/ pc = "sleep" /\ attempt + 1 = AttemptsMade
                   \/ pc = "fetch" /\ attempt = AttemptsMade
        ELSE pc = "returned" /\ result = last

C9_Witness ==
    /\ history = <<500, 404>>
    /\ pc = "returned"
    /\ result.status = 404
    /\ AttemptsMade < retryConfig.maxRetries + 1

\* A text that writes a non-negative whole number of seconds
IsSeconds(h) == h # <<>> /\ \A i \in 1..Len(h) : h[i] \in Digits

SinceSet(k) == now - lastSet[k].at

\* C11: getFromCache(k) returns the value of the latest setCache(k, v) if
\* and only if fewer than 60000 ms have passed since that set (so a get with
\* no time elapsed returns v); otherwise it returns null and no entry for k
\* is left in the cache.
C11_CacheTTL ==
    [][ \A k \in CacheKeys :
          getFromCache(k) =>
            IF lastSet[k].present /\ SinceSet(k) < 60000
            THEN got'.value = Hit(lastSet[k].data)
            ELSE got'.value = Null /\ ~cache'[k].present ]_vars

\* a get answered from the cache in the last millisecond of the entry's
\* life, and then a get one millisecond later that misses
C11_Witness ==
    /\ got.key = "volumes"
    /\ got.value = Null
    /\ lastSet["volumes"].present
    /\ SinceSet("volumes") = CACHE_TTL
    /\ ~cache["volumes"].present
    /\ cache["listedAssets"].present

(***************************************************************************)
(* Claims about the RateLimiter with updateRateLimitInfo                   *)
(***************************************************************************)
AcquireIds == 1..MaxAcquires
IsAdmitted(i) == \E j \in 1..Len(admitted) : admitted[j].id = i

\* C19: callers are admitted in first-in-first-out order: the promises are
\* resolved in the order of the acquire calls (ids are given in call order),
\* whatever the interleaving of acquire, timers and updateRateLimitInfo.
C19_Fifo ==
    /\ \A j \in 1..Len(admitted) : admitted[j].id = j
    /\ \A j \in 1..Len(queue) : queue[j] = Len(admitted) + j

\* callers were queued behind one another and all have been admitted, with
\* an updateRateLimitInfo call in between
C19_Witness ==
    /\ Len(admitted) = MaxAcquires
    /\ lastRateLimitInfo # NoInfo

\* C20: every acquire call is eventually admitted, provided time advances
\* and timers fire, whatever acquire and updateRateLimitInfo calls follow.
C20_EventuallyAdmitted ==
    \A i \in AcquireIds : (acquired >= i) ~> IsAdmitted(i)

(***************************************************************************)
(* Claims about findMaxAmountForSlippage and getLiquidityDepth             *)
(***************************************************************************)
\* C12: for a deterministic quote function the result of
\* findMaxAmountForSlippage does not decrease when the budget grows: the
\* search with the smaller budget returns at most what the search with the
\* larger budget returns (so the 50 bps maxAmountIn of a liquidity entry is
\* at most its 100 bps maxAmountIn).
C12_MonotoneInBudget ==
    (search[1].done /\ search[2].done /\ budget[1] < budget[2])
        => search[1].low <= search[2].low

\* both searches have returned, with different results
C12_Witness ==
    /\ search[1].done /\ search[2].done
    /\ budget = LiquidityBudgets
    /\ quoteSvc[1] = "any"
    /\ 0 < search[1].low
    /\ search[1].low < search[2].low

\* The quotes a search got were all the expected output of the amount
IdealQuotes ==
    \A e \in quoted : e.outcome = QuoteOf(ExpectedOut(routes[e.route],
                                                       e.amount))

CeilDiv(a, b) == (a + b - 1) \div b

\* C13 (as stated): with an ideal 1:1 quote function the search returns
\* UPPER_BOUND for every budget.
C13_ReturnsUpperBound ==
    \A s \in 1..2 :
        (search[s].done /\ IdealQuotes) => search[s].low = UpperBound

\* C13 (amended): with an ideal 1:1 quote function every probe raises low to
\* mid, and the search returns UPPER_BOUND - ceil(UPPER_BOUND / 2^probes),
\* below UPPER_BOUND, for every budget.
C13_ReturnsBelowUpperBound ==
    \A s \in 1..2 :
        (search[s].done /\ IdealQuotes) =>
            /\ search[s].low = UpperBound - CeilDiv(UpperBound, Pow2(MaxProbes))
            /\ search[s].low < UpperBound

C13_Witness ==
    /\ search[1].done /\ search[2].done
    /\ IdealQuotes
    /\ quoteSvc[1] = "any"
    /\ Cardinality(quoted) = MaxProbes
    /\ routes[1].source.decimals # routes[1].destination.decimals

\* C16: when every quote endpoint fails on every attempt for a route, the
\* route's liquidity entry carries the static thresholds 5000000000000 at
\* 50 bps and 10000000000000 at 100 bps, not a result of the binary search.
C16_StaticThresholdsWhenDown ==
    \A r \in 1..Len(liquidity) :
        quoteSvc[r] = "down" => liquidity[r].thresholds = StaticThresholds

(***************************************************************************)
(* Claims about getSnapshot and ping                                       *)
(***************************************************************************)
AllValid == \A j \in 1..Len(notionals) : notionals[j].valid

\* floor(n * 9975 / 10000), as n less the fee rounded up
NetOfFee(n) == n - CeilDiv(n * 25, 10000)

\* C14: when every quote endpoint fails for a (route, notional) pair with a
\* valid integer notional, the pair's rate entry has amountIn = notional and
\* amountOut = floor(notional * 9975 / 10000) (997500 for 1000000), its
\* fee is 25 bps of the notional in token units, and getSnapshot does not
\* fail.
C14_FallbackRate ==
    /\ \A k \in 1..Len(rates) :
          LET r == PairRoute(k)
              n == notionals[PairNotional(k)]
          IN  (quoteSvc[r] = "down" /\ n.valid) =>
                /\ rates[k].amountIn = NatToText(n.value)
                /\ rates[k].amountOut = NatToText(NetOfFee(n.value))
                /\ n.value = 1000000 =>
                      rates[k].amountOut = <<"9", "9", "7", "5", "0", "0">>
                /\ rates[k].totalFeesUsd =
                      Ratio(n.value * 25,
                            Pow10(routes[r].source.decimals) * 10000)
    /\ AllValid => snapshot.status # "failure" /\ ~ratesRejected

\* the snapshot has returned with the fallback rate for notional 1000000 on
\* a route whose quote endpoints are down
C14_Witness ==
    /\ snapshot.status = "success"
    /\ quoteSvc[1] = "down"
    /\ notionals[1] = Notional(1000000)
    /\ snapshot.rates[1].amountOut = <<"9", "9", "7", "5", "0", "0">>

\* What the quote endpoints of route r give for an amount, from the
\* behaviour of that route's endpoints alone
QuoteAlone(r, amount) ==
    CASE quoteSvc[r] = "exact" -> QuoteOf(ExpectedOut(routes[r], amount))
      [] quoteSvc[r] = "down" -> QuoteOf(NetOfFee(amount))
      [] quoteSvc[r] = "garbled" -> Thrown

\* The result of the search for route r on its own
RECURSIVE SolveAlone(_, _, _, _, _)
SolveAlone(r, slippageBps, low, high, i) ==
    IF i >= MaxProbes \/ Breaks(low, high) THEN low
    ELSE LET mid == Mid(low, high)
             q   == QuoteAlone(r, mid)
         IN  IF /\ q # Thrown
                /\ calculateSlippage(routes[r], mid, q.amountOut)
                      <= slippageBps
             THEN SolveAlone(r, slippageBps, mid, high, i + 1)
             ELSE SolveAlone(r, slippageBps, low, mid, i + 1)

\* getSnapshot returns all four categories, one entry per item
SnapshotPopulated ==
    /\ AllValid => snapshot.status # "failure"
    /\ snapshot.status = "success" =>
          /\ Len(snapshot.volumes) = Len(WindowsAsked)
          /\ Len(snapshot.rates) = Len(routes) * Len(notionals)
          /\ Len(snapshot.liquidity) = Len(routes)
          /\ Len(snapshot.listedAssets.assets) > 0

\* The entries of the routes whose quote endpoints answer, the volumes when
\* a volume endpoint answers and the assets when a token endpoint answers
\* are what these upstreams give, whatever fails elsewhere
SnapshotLiveItems ==
    snapshot.status = "success" =>
      /\ \A k \in 1..Len(snapshot.rates) :
            LET r == PairRoute(k)
                n == notionals[PairNotional(k)].value
            IN  /\ snapshot.rates[k].source = routes[r].source
                /\ snapshot.rates[k].destination = routes[r].destination
                /\ snapshot.rates[k].amountIn = NatToText(n)
                /\ quoteSvc[r] = "exact" =>
                      snapshot.rates[k].amountOut =
                          NatToText(ExpectedOut(routes[r], n))
      /\ \A r \in 1..Len(snapshot.liquidity) :
            /\ snapshot.liquidity[r].route = r
            /\ quoteSvc[r] = "exact" =>
                  \A s \in 1..2 :
                     snapshot.liquidity[r].thresholds[s] =
                        [maxAmountIn |->
                            NatToText(SolveAlone(r, LiquidityBudgets[s], 0,
                                                 UpperBound, 0)),
                         slippageBps |-> LiquidityBudgets[s]]
      /\ \A j \in 1..Len(snapshot.volumes) :
            /\ snapshot.volumes[j].window = WindowsAsked[j]
            /\ volumeSvc = "live" =>
                  snapshot.volumes[j].volumeUsd =
                     (("24h" :> 20000000) @@ ("7d" :> 140000000)
                        @@ ("30d" :> 600000000))[WindowsAsked[j]]
      /\ tokenSvc = "live" => snapshot.listedAssets.assets = ParsedTokens

\* The items whose upstream fails carry the fallback values: the 25 bps
\* rate, the static liquidity thresholds, the volumes of the public sources
\* (the static estimate unless DefiLlama reports more), the fallback tokens
SnapshotFallbackItems ==
    snapshot.status = "success" =>
      /\ \A k \in 1..Len(snapshot.rates) :
            quoteSvc[PairRoute(k)] # "exact" =>
               snapshot.rates[k].amountOut =
                  NatToText(NetOfFee(notionals[PairNotional(k)].value))
      /\ \A r \in 1..Len(snapshot.liquidity) :
            quoteSvc[r] # "exact" =>
               snapshot.liquidity[r].thresholds = StaticThresholds
      /\ \A j \in 1..Len(snapshot.volumes) :
            volumeSvc = "down" =>
               snapshot.volumes[j].volumeUsd =
                  Max(getEstimatedVolume(WindowsAsked[j]),
                      getVolumeFromDefiLlama[WindowsAsked[j]])
      /\ tokenSvc # "live" => snapshot.listedAssets.assets = getFallbackTokens

\* C15: getSnapshot with valid routes and notionals completes successfully
\* with all four categories populated for every combination of upstream
\* failures; a failure in one category or for one route replaces only that
\* item's values by fallback values, and the other entries are what they
\* are without that failure.
C15_IsolatedFallbacks ==
    /\ SnapshotPopulated
    /\ SnapshotLiveItems
    /\ SnapshotFallbackItems

\* C17: when every volume endpoint fails and the public source yields no
\* data, each requested window's volumeUsd returned by getVolumes is the
\* static estimate for the window (15000000, 105000000, 450000000), never 0.
C17_EstimatedVolumes ==
    (volumes.done /\ volumeSvc = "down" /\ llamaSvc = "down") =>
        \A j \in 1..Len(volumes.value) :
            /\ volumes.value[j].volumeUsd =
                  getEstimatedVolume(volumes.value[j].window)
            /\ volumes.value[j].volumeUsd # 0

\* C18: every ping call completes with status "ok" and a timestamp, whatever
\* the health endpoints do; no other status is ever returned.
C18_PingAlwaysOk ==
    /\ [](pingPc = "waiting" =>
            <>(pingPc = "idle" /\ pingResult.status = "ok"
                               /\ pingResult.timestamp = now))
    /\ [](pingResult.status \in {"none", "ok"})

\* a ping that had to wait for the limiter and found every health endpoint
\* failing has returned "ok"
C18_Witness ==
    /\ pingPc = "idle"
    /\ pingId > maxRequests
    /\ pingProbes = <<"threw", "threw", "threw">>
    /\ pingResult.status = "ok"

(***************************************************************************)
(* Claims about the service's requests: the breaker, the retry budget and  *)
(* the request timeout                                                     *)
(***************************************************************************)
\* fetch() is called in this step
FetchIssued == Len(history') = Len(history) + 1

\* C21: every network request issued on behalf of getSnapshot passes through
\* the circuit breaker: it is made inside an execute call of the breaker, and
\* none is made while the breaker is OPEN and its openTimeout has not
\* elapsed.
C21_ThroughBreaker ==
    [][ FetchIssued =>
          /\ \E c \in Calls : call[c] \in InFlight
          /\ ~(state = "OPEN" /\ ~OpenTimeoutElapsed) ]_vars

\* C22: against a quote endpoint that fails on every attempt, the service
\* makes exactly (configured retryMaxAttempts) + 1 attempts before giving the
\* endpoint up.
C22_ConfiguredRetryBudget ==
    pc = "thrown" => AttemptsMade = config.retryMaxAttempts + 1

\* C27: a transport call of the service that is still in flight when the
\* configured timeout elapses is aborted at that moment (it is in flight no
\* longer than the timeout, and ends as an aborted attempt), and the aborted
\* attempt is retried while attempts remain.
C27_AbortedAtConfiguredTimeout ==
    (AttemptsMade > 0 /\ last.needed > config.timeout) =>
        /\ last.took = config.timeout
        /\ last.kind = "transport"
        /\ last.message = <<"This operation was aborted">>
        /\ pc # "returned"

(***************************************************************************)
(* Claims about the arithmetic of rates                                    *)
(***************************************************************************)
RECURSIVE GCD(_, _)
GCD(a, b) == IF b = 0 THEN a ELSE GCD(b, a % b)

\* A fraction in lowest terms
Reduced(q) == Ratio(q.num \div GCD(q.num, q.den), q.den \div GCD(q.num, q.den))

\* x / y for two fractions
Quotient(x, y) == Reduced(Ratio(x.num * y.den, x.den * y.num))

\* C23: calculateEffectiveRate returns 0 when amountIn is 0, and otherwise
\* (amountOut / 10^decimalsOut) / (amountIn / 10^decimalsIn); for amountIn =
\* 10^d with d decimals and amountOut = 2 * 10^e with e decimals (d = 18 and
\* e = 6 in the claim, d = MaxDecimals and e = 1 here) the result is
\* exactly 2.
C23_EffectiveRate ==
    applied.fn = "calculateEffectiveRate" =>
        /\ applied.amountIn = 0 => applied.value = Ratio(0, 1)
        /\ applied.amountIn # 0 =>
              Reduced(applied.value) =
                 Quotient(Reduced(Ratio(applied.amountOut,
                                        Pow10(applied.decimalsOut))),
                          Reduced(Ratio(applied.amountIn,
                                        Pow10(applied.decimalsIn))))
        /\ ( /\ applied.amountIn = Pow10(MaxDecimals)
             /\ applied.decimalsIn = MaxDecimals
             /\ applied.amountOut = 2 * Pow10(1)
             /\ applied.decimalsOut = 1 ) =>
              Reduced(applied.value) = Ratio(2, 1)

\* one whole source token for two whole destination tokens, with different
\* decimals
C23_Witness ==
    /\ applied.fn = "calculateEffectiveRate"
    /\ applied.amountIn = Pow10(MaxDecimals)
    /\ applied.decimalsIn = MaxDecimals
    /\ applied.amountOut = 2 * Pow10(1)
    /\ applied.decimalsOut = 1
    /\ Reduced(applied.value) = Ratio(2, 1)

(***************************************************************************)
(* Claims about the backoff of fetchWithRetry                              *)
(***************************************************************************)
\* The latest attempt failed, and not with a 429
FailedNot429 ==
    \/ last.kind = "transport"
    \/ last.kind = "response" /\ last.status >= 500

\* C24: after a failed attempt number `attempt` (counted from 0) that is not
\* a 429 and not the last allowed attempt, fetchWithRetry waits exactly
\* min(baseDelayMs * 2^attempt, maxDelayMs) before the next attempt starts;
\* after the final attempt it waits for nothing before raising the error.
C24_ExponentialBackoff ==
    /\ [](pc = "sleep" =>
            /\ attempt < retryConfig.maxRetries
            /\ attempt + 1 = AttemptsMade
            /\ FailedNot429 =>
                  delay = IF retryConfig.baseDelayMs * Pow2(attempt)
                                <= retryConfig.maxDelayMs
                          THEN retryConfig.baseDelayMs * Pow2(attempt)
                          ELSE retryConfig.maxDelayMs)
    /\ [][ /\ FetchIssued => pc = "fetch"
           /\ (FetchIssued /\ attempt = retryConfig.maxRetries) =>
                 pc' \in {"returned", "thrown"} ]_vars

\* the third attempt has failed with a transport error and the wait is the
\* capped one, where the uncapped one would be 4000 ms
C24_Witness ==
    /\ pc = "sleep"
    /\ attempt = 2
    /\ retryConfig.maxRetries = 3
    /\ last.kind = "transport"
    /\ delay = retryConfig.maxDelayMs
    /\ delay < retryConfig.baseDelayMs * Pow2(attempt)

(***************************************************************************)
(* Claims about updateRateLimitInfo                                        *)
(***************************************************************************)
\* C25: an updateRateLimitInfo call with remaining < maxRequests / 2
\* throttles: it never lets a pending or later acquire call be admitted
\* earlier than without the update (the window, whose expiry resets
\* requestCount and lets the queue go on, does not expire earlier), and it
\* never moves windowStart to a later time than before; a call with
\* remaining >= maxRequests / 2 leaves windowStart unchanged; in both cases
\* requestCount and the queue are unchanged.
C25_UpdateThrottles ==
    [][ \A info \in RateLimitInfos :
          updateRateLimitInfo(info) =>
            /\ IF 2 * info.remaining < maxRequests
               THEN /\ windowStart' + windowMs >= windowStart + windowMs
                    /\ windowStart' <= windowStart
               ELSE windowStart' = windowStart
            /\ requestCount' = requestCount
            /\ queue' = queue ]_vars

(***************************************************************************)
(* Claims about the periodic reset of the breaker's failure counter        *)
(***************************************************************************)
\* What an execute call by c does apart from the periodic reset: the state
\* check sees the state and lastFailureTime as they were
StateCheckOnly(c) ==
    IF state = "OPEN"
    THEN IF now - lastFailureTime > timeout
         THEN state' = "HALF_OPEN" /\ call'[c] = "probe"
         ELSE state' = "OPEN" /\ call'[c] = "rejected"
    ELSE state' = state /\ call'[c] = "running"

\* C26 (as claimed): an execute call at time now with
\* now - lastResetTime >= resetTimeout (exact equality included), in any
\* state, sets the failure counter to 0 and lastResetTime to now, and the
\* reset does not by itself change the state.
C26_ResetAtEquality ==
    [][ \A c \in Calls : Execute(c) =>
          /\ IF now - lastResetTime >= resetTimeout
             THEN failureCount' = 0 /\ lastResetTime' = now
             ELSE failureCount' = failureCount /\ lastResetTime' = lastResetTime
          /\ StateCheckOnly(c) ]_vars

\* C26 (amended): an execute call at time now with
\* now - lastResetTime > resetTimeout, in any state, sets the failure counter
\* to 0 and lastResetTime to now before the state check; at exact equality
\* and before, both are left as they are; the reset does not by itself
\* change the state.
C26_ResetAfterTimeout ==
    [][ \A c \in Calls : Execute(c) =>
          /\ IF now - lastResetTime > resetTimeout
             THEN failureCount' = 0 /\ lastResetTime' = now
             ELSE failureCount' = failureCount /\ lastResetTime' = lastResetTime
          /\ StateCheckOnly(c) ]_vars

\* an execute call on an OPEN breaker has reset the counter and was
\* rejected, the breaker still OPEN
C26_Witness ==
    /\ state = "OPEN"
    /\ lastResetTime = now
    /\ lastResetTime > StartTime + resetTimeout
    /\ failureCount = 0
    /\ streak = 0
    /\ \E c \in Calls : call[c] = "rejected"

(***************************************************************************)
(* Claims about the course of findMaxAmountForSlippage                     *)
(***************************************************************************)
\* A probe of the current route at this amount gave a quote whose slippage
\* is within the budget
ProbedFeasible(amount, slippageBps) ==
    \E e \in quoted :
        /\ e.route = CurrentRoute
        /\ e.amount = amount
        /\ e.outcome.kind = "quote"
        /\ calculateSlippage(routes[e.route], amount, e.outcome.amountOut)
              <= slippageBps

\* C28: throughout findMaxAmountForSlippage low never decreases, high never
\* increases, low < high, and low is the initial 0 or an amount whose probe
\* returned a slippage within the budget; the search makes at most MaxProbes
\* (25) probes, each moving low or high to the midpoint, stops when the
\* midpoint equals low or high, and returns low.
C28_SearchInvariant ==
    /\ [](\A s \in 1..2 :
            /\ search[s].low < search[s].high
            /\ search[s].high <= UpperBound
            /\ search[s].i <= MaxProbes
            /\ search[s].low = 0 \/ ProbedFeasible(search[s].low, budget[s])
            /\ search[s].done <=>
                  \/ search[s].i >= MaxProbes
                  \/ (search[s].low + search[s].high) \div 2 = search[s].low
                  \/ (search[s].low + search[s].high) \div 2 = search[s].high)
    /\ [][ /\ \A s \in 1..2 :
                search'[s].i = search[s].i + 1 =>
                  /\ ~search[s].done
                  /\ search'[s].low >= search[s].low
                  /\ search'[s].high <= search[s].high
                  /\ \/ /\ search'[s].low =
                              (search[s].low + search[s].high) \div 2
                        /\ search'[s].high = search[s].high
                     \/ /\ search'[s].high =
                              (search[s].low + search[s].high) \div 2
                        /\ search'[s].low = search[s].low
           /\ Len(liquidity') = Len(liquidity) + 1 =>
                \A s \in 1..2 :
                   /\ search[s].done
                   /\ liquidity'[Len(liquidity')].thresholds[s].maxAmountIn
                         = NatToText(search[s].low) ]_vars

\* a search has ended after MaxProbes probes of which some were feasible and
\* some were not
C28_Witness ==
    /\ CurrentRoute <= Len(routes)
    /\ search[1].done
    /\ search[1].i = MaxProbes
    /\ 0 < search[1].low
    /\ search[1].high < UpperBound
    /\ ProbedFeasible(search[1].low, budget[1])

\* C29: when the quote request for a probed midpoint fails on every endpoint
\* and attempt, the search treats the midpoint as infeasible: high becomes
\* mid, low is unchanged, and the search goes on.
C29_FailedProbeInfeasible ==
    [][ \A s \in 1..2 :
          (CurrentRoute <= Len(routes) /\ quoteSvc[CurrentRoute] = "down"
              /\ search'[s].i = search[s].i + 1) =>
            /\ search'[s].high = Mid(search[s].low, search[s].high)
            /\ search'[s].low = search[s].low ]_vars

(***************************************************************************)
(* Claims about the shape of the snapshot                                  *)
(***************************************************************************)
\* C30: for N routes and M notionals that are valid integers the snapshot's
\* rates list has exactly N * M entries, the entry of the i-th route and the
\* j-th notional at place (i - 1) * M + j, each carrying its pair's route
\* and amountIn whether live or fallback; the liquidity list has exactly N
\* entries, one per route in order, each with the two thresholds 50 and
\* 100 bps.
C30_SnapshotShape ==
    AllValid =>
      /\ snapshot.status # "failure"
      /\ snapshot.status = "success" =>
           /\ Len(snapshot.rates) = Len(routes) * Len(notionals)
           /\ \A i \in 1..Len(routes), j \in 1..Len(notionals) :
                 LET e == snapshot.rates[(i - 1) * Len(notionals) + j]
                 IN  /\ e.source = routes[i].source
                     /\ e.destination = routes[i].destination
                     /\ e.amountIn = NatToText(notionals[j].value)
           /\ Len(snapshot.liquidity) = Len(routes)
           /\ \A i \in 1..Len(routes) :
                 /\ snapshot.liquidity[i].route = i
                 /\ Len(snapshot.liquidity[i].thresholds) = 2
                 /\ snapshot.liquidity[i].thresholds[1].slippageBps = 50
                 /\ snapshot.liquidity[i].thresholds[2].slippageBps = 100

\* a snapshot of two routes and two notionals, the first route's rates
\* fallbacks and the second route's live
C30_Witness ==
    /\ snapshot.status = "success"
    /\ Len(routes) = 2
    /\ Len(notionals) = 2
    /\ quoteSvc = <<"down", "exact">>
    /\ Len(snapshot.rates) = 4
    /\ snapshot.rates[2].amountOut = <<"6">>
    /\ snapshot.rates[3].amountOut = <<"1", "0", "0", "0", "0", "0">>

C32_AttemptsWithinAdmissions ==
    Len(history) <= Len(admitted)

\* C33: the breaker moves from HALF_OPEN to CLOSED only when the
\* successThreshold most recently completed calls all succeeded: a failure
\* that occurs in HALF_OPEN discards the successes counted before it.
C33_ClosesOnConsecutiveSuccesses ==
    [][ \A c \in Calls :
          (state = "HALF_OPEN" /\ Succeed(c) /\ state' = "CLOSED") =>
              okStreak' >= successThreshold ]_vars

\* C34: the completion (success or failure) of a call that was admitted
\* before the breaker opened does not change the state, the failure counter
\* or lastFailureTime of an OPEN breaker.
C34_LateCompletionIgnored ==
    [][ \A c \in Calls :
          (state = "OPEN" /\ call[c] = "running"
             /\ (Succeed(c) \/ Fail(c))) =>
              /\ state' = state
              /\ failureCount' = failureCount
              /\ lastFailureTime' = lastFailureTime ]_vars

\* C35: in every reachable state of the breaker, when the state is CLOSED the
\* failure counter is less than failureThreshold and the success counter is
\* 0, and the success counter is always less than successThreshold.
C35_CounterRanges ==
    /\ state = "CLOSED" =>
          (failureCount < failureThreshold /\ successCount = 0)
    /\ successCount < successThreshold

C35_Witness ==
    /\ state = "CLOSED"
    /\ failureCount = failureThreshold - 1
    /\ streak = failureCount
    /\ \E c \in Calls : call[c] = "failed"
    /\ \E c \in Calls : call[c] = "rejected"

\* C36: an execute call that is rejected because the breaker is OPEN leaves
\* the state, the success counter and lastFailureTime unchanged, and leaves
\* the failure counter unchanged unless the resetTimeout reset applied at the
\* start of that call.
C36_RejectionChangesNothing ==
    [][ \A c \in Calls :
          (Execute(c) /\ call'[c] = "rejected") =>
              /\ state = "OPEN"
              /\ state' = state
              /\ successCount' = successCount
              /\ lastFailureTime' = lastFailureTime
              /\ \/ failureCount' = failureCount
                 \/ /\ now - lastResetTime > resetTimeout
                    /\ failureCount' = 0 ]_vars

C36_Witness ==
    /\ state = "OPEN"
    /\ successCount > 0
    /\ failureCount >= failureThreshold
    /\ now > lastFailureTime
    /\ \A c \in Calls : call[c] = "rejected"

\* C37: in every reachable state of the RateLimiter 0 <= requestCount <=
\* maxRequests, and between two consecutive resets of the window
\* (requestCount set to 0) at most maxRequests acquire calls are admitted:
\* requestCount counts the admissions since the last reset of the window.
C37_CountWithinLimit ==
    /\ [](requestCount >= 0 /\ requestCount <= maxRequests)
    /\ [][ \/ /\ requestCount' = requestCount
              /\ admitted' = admitted
           \/ /\ requestCount' = requestCount + 1
              /\ Len(admitted') = Len(admitted) + 1
              /\ windowStart' = windowStart
           \/ /\ WindowExpired
              /\ windowStart' = now
              /\ requestCount' \in {0, 1}
              /\ Len(admitted') = Len(admitted) + requestCount' ]_vars

C37_Witness ==
    /\ requestCount = maxRequests
    /\ queue # <<>>
    /\ Len(admitted) > maxRequests
    /\ lastRateLimitInfo # NoInfo

\* C38: no wait between two consecutive attempts of fetchWithRetry is longer
\* than retryConfig.maxDelayMs, whatever the kind of failure of the earlier
\* attempt (429 with or without Retry-After, 5xx, or transport failure).
C38_WaitWithinMaxDelay ==
    pc = "sleep" => delay <= retryConfig.maxDelayMs

\* C40: at any moment the RateLimiter has at most one re-check timer
\* pending, whatever the number of acquire calls that arrive while the queue
\* is non-empty.
C40_OneTimerPending ==
    Len(timers) <= 1

(***************************************************************************)
(* Claims about the MetricsCollector                                       *)
(***************************************************************************)
\* The n last elements of s, all of s if it has fewer
LastN(s, n) == SubSeq(s, Max(Len(s) - n, 0) + 1, Len(s))

====
